---- MODULE Spec2Model ----
(***************************************************************************)
(* A model of dav2mkv.py: the VideoConverter statistics tracker, one       *)
(* convert_video call as a sequence of steps, the BatchConverter worker    *)
(* pool with its completion loop, and main's exit-code mapping.            *)
(*                                                                         *)
(* A run is one of three drivers:                                          *)
(*   "file"  main() in single-file mode (convert_video runs on the main    *)
(*           thread),                                                      *)
(*   "dir"   main() in directory mode (convert_directory and its pool),    *)
(*   "api"   a library caller issuing convert_video calls from its own     *)
(*           threads on one VideoConverter (as the unit tests do).         *)
(*                                                                         *)
(* BatchSpec is the "dir" driver alone, with the tools present.  The        *)
(* further specifications exercise one operation each on its own:          *)
(*   DiscoverySpec  find_video_files on a directory tree,                  *)
(*   PathSpec       the derivation of an output path,                      *)
(*   VerifySpec     _verify_output_file on files of given sizes,           *)
(*   ReaderSpec     get_stats next to running convert_video calls,         *)
(*   PoolSpec       the worker count BatchConverter is constructed with,   *)
(*   ProbeSpec      get_video_info on a path, with ffprobe's outcomes,     *)
(*   SchedSpec      the pool's jobs over whole intervals of time,          *)
(*   CommandSpec    the arguments of each submit and the ffmpeg command,   *)
(*   ToolCheckSpec  check_ffmpeg_availability with its two tool runs,      *)
(*   DepthSpec      find_video_files called flat, then recursively,        *)
(*   OutputsSpec    the output paths convert_directory derives,            *)
(*   PipelineSpec   the frame pipeline of dav2mp4.py's convert_dav_to_mp4  *)
(*                  (PipelineLiveSpec: with its three threads scheduled    *)
(*                  fairly).                                               *)
(***************************************************************************)
EXTENDS Integers, FiniteSets, Sequences

\* Largest number of candidates / convert_video calls of a run.
MaxFiles == 2
\* Largest worker-pool size of a run.
MaxWorkers == 2

Jobs == 1..MaxFiles

\* Container tokens: the two supported ones and an unsupported one.
Containers == {"mkv", "mp4", "avi"}
\* dav2mkv.py:321  container not in ["mkv", "mp4"]
SupportedContainers == {"mkv", "mp4"}

VARIABLES
    mode,             \* "file" | "dir" | "api"
    container,        \* the container token of the run
    overwrite,        \* the overwrite flag of the run
    ffmpeg_available, \* what check_ffmpeg_availability() answers
    max_workers,      \* BatchConverter.max_workers
    nfiles,           \* number of candidates (dir) or of calls (api, file)
    mpc,              \* position of the main thread
    exit_code,        \* main's return value, -1 while it has not returned
    interrupted,      \* a KeyboardInterrupt was raised in the main thread
    stats,            \* VideoConverter._stats
    job,              \* per convert_video call: position and what it did
    results,          \* convert_directory's results dictionary
    completed,        \* convert_directory's completed counter
    progress,         \* the "Progress:" lines logged: how many, and the last
    consumed,         \* futures already yielded by as_completed
    directory,        \* find_video_files: what its argument is on disk
    recursive,        \* find_video_files: the recursive flag
    tree,             \* the entries below the directory
    seen,             \* entries the iterator has yielded so far
    video_files,      \* find_video_files: the local list
    fpc,              \* position in find_video_files
    found,            \* find_video_files: the returned list
    previous,         \* how the call before this one ended, and its list
    caller,           \* who derives an output path: "convert_video" |
                      \* "convert_directory"
    input_path,       \* convert_directory's input_dir (<<>> for convert_video)
    output,           \* the output argument, <<>> when it is not given
    video_file,       \* the file to convert
    output_file,      \* the output path derived for it
    ppc,              \* "idle" | "call" | "derived"
    output_exists,    \* _verify_output_file: output_file.exists()
    output_bytes,     \* ... the output's size
    input_readable,   \* ... input_file.stat() does not raise
    input_bytes,      \* ... the input's size
    verdict,          \* ... its answer: "none" | "True" | "False"
    warned,           \* ... it logged the size warning
    returned,         \* what get_stats last returned: "none" | "copy" (a
                      \* dictionary of its own) | "live" (_stats itself)
    snapshot,         \* the contents of the returned copy
    reads,            \* number of get_stats calls
    mutated,          \* the caller has written into a returned dictionary
    cpu_count,        \* multiprocessing.cpu_count()
    workers_given,    \* BatchConverter(...): a max_workers argument is given
    workers_arg,      \* ... its value (0 when none is given)
    pool_size,        \* the max_workers the BatchConverter ends with
    constructed,      \* the BatchConverter is constructed
    probed_path,      \* get_video_info: what its argument is on disk
    tool_run,         \* ... how the ffprobe run would end, and its output
    info_kind,        \* ... its outcome: "unset" | "None" | "VideoInfo" |
                      \* "raise"
    info_counts,      \* ... the stream_counts of the VideoInfo
    probe_spawned,    \* ... ffprobe was spawned
    gpc,              \* position in get_video_info
    sched_files,      \* timed batch: number of candidates
    sched_workers,    \* ... the pool's max_workers
    sched_state,      \* ... per call: "queued" | "running" | "done"
    clock,            \* ... intervals elapsed since the submits
    peak,             \* ... largest number of calls seen running at once
    given_overwrite,  \* convert_directory's overwrite argument
    given_container,  \* convert_directory's container argument
    given_files,      \* ... the number of candidates it found
    call,             \* per submitted call: the arguments it got, its ffmpeg command
    ffmpeg_run,       \* check_ffmpeg_availability: how 'ffmpeg -version' ends
    ffprobe_run,      \* ... how 'ffprobe -version' ends
    version_line,     \* ... the first line 'ffmpeg -version' prints
    checks_run,       \* ... the tools run so far, in order
    answer,           \* ... the returned pair, or "unset" / "raise"
    cpc,              \* position in check_ffmpeg_availability
    flat,             \* what a non-recursive find_video_files call returned before the recursive one
    batch_files,      \* a batch: the candidates find_video_files returned
    batch_output_dir, \* ... convert_directory's output_dir, <<>> when none
    batch_outputs,    \* ... the output paths of the calls submitted so far
    total_frames,     \* convert_dav_to_mp4: frames the input holds
    chunk_size,       \* ... the chunk_size argument
    frames_read,      \* ... frames cap.read() has delivered
    rpc,              \* ... position of the reader thread
    read_queue,       \* ... Queue(maxsize=chunk_size * 2), 0 is the None sentinel
    frames,           \* ... the chunk being collected
    processed_frames, \* ... the processed chunk not yet put
    kpc,              \* ... position of the chunking loop (the calling thread)
    write_queue,      \* ... Queue(maxsize=chunk_size * 2)
    written,          \* ... frames handed to out.write, in order
    wpc               \* ... position of the writer thread

discovery_vars == <<directory, recursive, tree, seen, video_files, fpc, found,
                    previous>>

path_vars == <<caller, input_path, output, video_file, output_file, ppc>>

\* The state of a library operation exercised on its own.
verify_vars == <<output_exists, output_bytes, input_readable, input_bytes,
                 verdict, warned>>

reader_vars == <<returned, snapshot, reads, mutated>>

pool_vars == <<cpu_count, workers_given, workers_arg, pool_size,
               constructed>>

probe_vars == <<probed_path, tool_run, info_kind, info_counts, probe_spawned,
                gpc>>

sched_vars == <<sched_files, sched_workers, sched_state, clock, peak>>

command_vars == <<given_overwrite, given_container, given_files, call>>

toolcheck_vars == <<ffmpeg_run, ffprobe_run, version_line, checks_run, answer, cpc>>

depth_vars == <<flat>>

outputs_vars == <<batch_files, batch_output_dir, batch_outputs>>

pipeline_vars == <<total_frames, chunk_size, frames_read, rpc, read_queue, frames, processed_frames, kpc, write_queue, written, wpc>>

unit_vars == <<discovery_vars, path_vars, verify_vars, reader_vars, pool_vars, probe_vars, sched_vars, command_vars, toolcheck_vars, depth_vars, outputs_vars, pipeline_vars>>

vars == <<mode, container, overwrite, ffmpeg_available, max_workers, nfiles,
          mpc, exit_code, interrupted, stats, job, results, completed, progress,
          consumed, unit_vars>>

params == <<mode, container, overwrite, ffmpeg_available, max_workers, nfiles>>

\* The state of main, the pool and the statistics tracker.
driver_vars == <<params, mpc, exit_code, interrupted, stats, job, results,
                 completed, progress, consumed>>

non_discovery_vars == <<driver_vars, path_vars, verify_vars, reader_vars, pool_vars, probe_vars, sched_vars, command_vars, toolcheck_vars, depth_vars, outputs_vars, pipeline_vars>>
non_path_vars == <<driver_vars, discovery_vars, verify_vars, reader_vars, pool_vars, probe_vars, sched_vars, command_vars, toolcheck_vars, depth_vars, outputs_vars, pipeline_vars>>
non_verify_vars == <<driver_vars, discovery_vars, path_vars, reader_vars, pool_vars, probe_vars, sched_vars, command_vars, toolcheck_vars, depth_vars, outputs_vars, pipeline_vars>>
non_pool_vars == <<driver_vars, discovery_vars, path_vars, verify_vars,
                   reader_vars, probe_vars, sched_vars, command_vars, toolcheck_vars, depth_vars, outputs_vars, pipeline_vars>>
non_probe_vars == <<driver_vars, discovery_vars, path_vars, verify_vars,
                    reader_vars, pool_vars, sched_vars, command_vars, toolcheck_vars, depth_vars, outputs_vars, pipeline_vars>>
non_sched_vars == <<driver_vars, discovery_vars, path_vars, verify_vars, reader_vars, pool_vars, probe_vars, command_vars, toolcheck_vars, depth_vars, outputs_vars, pipeline_vars>>
non_command_vars == <<driver_vars, discovery_vars, path_vars, verify_vars, reader_vars, pool_vars, probe_vars, sched_vars, toolcheck_vars, depth_vars, outputs_vars, pipeline_vars>>
non_toolcheck_vars == <<driver_vars, discovery_vars, path_vars, verify_vars, reader_vars, pool_vars, probe_vars, sched_vars, command_vars, depth_vars, outputs_vars, pipeline_vars>>
non_depth_vars == <<driver_vars, discovery_vars, path_vars, verify_vars, reader_vars, pool_vars, probe_vars, sched_vars, command_vars, toolcheck_vars, outputs_vars, pipeline_vars>>
non_discovery_depth_vars == <<driver_vars, path_vars, verify_vars, reader_vars, pool_vars, probe_vars, sched_vars, command_vars, toolcheck_vars, outputs_vars, pipeline_vars>>
non_outputs_vars == <<driver_vars, discovery_vars, path_vars, verify_vars, reader_vars, pool_vars, probe_vars, sched_vars, command_vars, toolcheck_vars, depth_vars, pipeline_vars>>
non_pipeline_vars == <<driver_vars, discovery_vars, path_vars, verify_vars, reader_vars, pool_vars, probe_vars, sched_vars, command_vars, toolcheck_vars, depth_vars, outputs_vars>>
non_reader_unit_vars == <<discovery_vars, path_vars, verify_vars, pool_vars, probe_vars, sched_vars, command_vars, toolcheck_vars, depth_vars, outputs_vars, pipeline_vars>>

----------------------------------------------------------------------------
(* VideoConverter._stats and _update_stats *)

\* dav2mkv.py:200-205
InitStats ==
    [conversions_attempted |-> 0,
     conversions_successful |-> 0,
     conversions_failed |-> 0,
     total_processing_time |-> 0]

\* dav2mkv.py:268-282.  One critical section: the whole update is atomic.
\* processing_time is counted in ticks (0 when the caller passes none).
update_stats(st, attempted, successful, processing_time) ==
    [conversions_attempted |->
        st.conversions_attempted + (IF attempted THEN 1 ELSE 0),
     conversions_successful |->
        st.conversions_successful + (IF successful THEN 1 ELSE 0),
     conversions_failed |->
        st.conversions_failed + (IF successful THEN 0 ELSE 1),
     total_processing_time |-> st.total_processing_time + processing_time]

----------------------------------------------------------------------------
(* One convert_video call *)

\* A call that has not been issued yet.
IdleJob ==
    [pc |-> "idle",          \* position in convert_video
     ended |-> "none",       \* the step that ended the call
     result |-> "none",      \* "True" | "False" | "raise" | "none"
     spawned |-> {},         \* external processes spawned: "ffprobe", "ffmpeg"
     out_file |-> "unknown", \* the output path: "absent" | "old" | "new" | "empty"
     video_info |-> "unset", \* the local video_info: "info" | "None"; it is
                             \* gone when the call returns
     dir_made |-> FALSE,     \* output_file.parent.mkdir succeeded
     engine_rc |-> "none",   \* "zero" | "nonzero" | "timeout"
     verified |-> "none",    \* _verify_output_file: "pass" | "fail"
     d_attempted |-> 0,      \* what this call added to conversions_attempted
     d_successful |-> 0,     \* ... to conversions_successful
     d_failed |-> 0]         \* ... to conversions_failed

RunningPcs ==
    {"validate", "overwrite_check", "probe", "mkdir", "engine", "verify"}

FinishedPcs == {"returned", "raised"}

Running(j) == job[j].pc \in RunningPcs
Finished(j) == job[j].pc \in FinishedPcs
NumRunning == Cardinality({j \in Jobs : Running(j)})

\* An update made without the lock: it is lost when another call is under
\* way.  The update of the mutant.
RecordStats_lost_update(j, r2, attempted, successful, processing_time) ==
    LET raced == \E i \in Jobs \ {j} : Running(i)
        st2 == IF raced THEN stats
               ELSE update_stats(stats, attempted, successful, processing_time)
    IN
    /\ stats' = st2
    /\ job' = [job EXCEPT ![j] =
         [r2 EXCEPT
            !.d_attempted = @ + (st2.conversions_attempted
                                   - stats.conversions_attempted),
            !.d_successful = @ + (st2.conversions_successful
                                    - stats.conversions_successful),
            !.d_failed = @ + (st2.conversions_failed
                                - stats.conversions_failed)]]

\* A stats update made by call j, which leaves it with record r2: the
\* call's own share of each counter is kept in the record.
RecordStats(j, r2, attempted, successful, processing_time) ==
    LET st2 == update_stats(stats, attempted, successful, processing_time) IN
    /\ stats' = st2
    /\ job' = [job EXCEPT ![j] =
         [r2 EXCEPT
            !.d_attempted = @ + (st2.conversions_attempted
                                   - stats.conversions_attempted),
            !.d_successful = @ + (st2.conversions_successful
                                    - stats.conversions_successful),
            !.d_failed = @ + (st2.conversions_failed
                                - stats.conversions_failed)]]

\* dav2mkv.py:390-395  _update_stats(successful=True, ...); return True
return_success(j, r) ==
    RecordStats(j, [r EXCEPT !.pc = "returned", !.result = "True",
                          !.video_info = "unset"],
                FALSE, TRUE, 1)

\* Mutant of return_verify_failed: a failed verification is not allowed to
\* downgrade the zero exit status.
return_verify_failed_as_success(j, r) ==
    RecordStats(j, [r EXCEPT !.pc = "returned", !.result = "True",
                          !.video_info = "unset"],
                FALSE, TRUE, 1)

\* dav2mkv.py:396-399  _update_stats(processing_time=...); return False
return_verify_failed(j, r) ==
    RecordStats(j, [r EXCEPT !.pc = "returned", !.result = "False",
                          !.video_info = "unset"],
                FALSE, FALSE, 1)

\* dav2mkv.py:400-408  _update_stats(processing_time=...); return False
return_engine_failed(j, r) ==
    RecordStats(j, [r EXCEPT !.pc = "returned", !.result = "False",
                          !.video_info = "unset"],
                FALSE, FALSE, 1)

\* Mutant of except_timeout: the handler is missing and the timeout leaves
\* convert_video as an exception.
except_timeout_reraises(j, r) ==
    /\ job' = [job EXCEPT ![j] = [r EXCEPT !.pc = "raised",
                                          !.result = "raise",
                                          !.video_info = "unset"]]
    /\ stats' = stats

\* dav2mkv.py:410-416  except subprocess.TimeoutExpired
except_timeout(j, r) ==
    RecordStats(j, [r EXCEPT !.pc = "returned", !.result = "False",
                          !.video_info = "unset"],
                FALSE, FALSE, 1)

\* dav2mkv.py:417-421  except Exception
except_exception(j, r) ==
    RecordStats(j, [r EXCEPT !.pc = "returned", !.result = "False",
                          !.video_info = "unset"],
                FALSE, FALSE, 1)

\* dav2mkv.py:303-310  convert_video is entered: the first stats update,
\* _update_stats(attempted=True).  These lines lie before the try of line
\* 312, so a fault here (or one raised by a substituted converter object)
\* leaves the call as an exception.
begin(j) ==
    \/ RecordStats(j, [job[j] EXCEPT !.pc = "validate"], TRUE, FALSE, 0)
    \/ /\ job' = [job EXCEPT ![j].pc = "raised", ![j].ended = "fault",
                             ![j].result = "raise"]
       /\ stats' = stats

\* Mutant of validate: the probe is run before the input is validated.
validate_after_probe(j) ==
    /\ job[j].pc = "validate"
    /\ \E input \in {"file", "missing", "not_a_file"} :
         LET probed == [job[j] EXCEPT !.spawned = {"ffprobe"}]
         IN  IF input = "missing"
             THEN except_exception(j, [probed EXCEPT !.ended = "input_missing"])
             ELSE IF input = "not_a_file"
             THEN except_exception(j, [probed EXCEPT
                                         !.ended = "input_not_file"])
             ELSE IF container \notin SupportedContainers
             THEN except_exception(j, [probed EXCEPT
                                         !.ended = "unsupported_container"])
             ELSE /\ job' = [job EXCEPT ![j].pc = "overwrite_check"]
                  /\ stats' = stats
    /\ UNCHANGED <<params, unit_vars, mpc, exit_code, interrupted, results,
                   completed, progress, consumed>>

\* dav2mkv.py:313-322  input exists, input is a file, container supported;
\* each failure raises VideoProcessingError, caught at line 417.
validate(j) ==
    /\ job[j].pc = "validate"
    /\ \E input \in {"file", "missing", "not_a_file"} :
         IF input = "missing"
         THEN except_exception(j, [job[j] EXCEPT !.ended = "input_missing"])
         ELSE IF input = "not_a_file"
         THEN except_exception(j, [job[j] EXCEPT !.ended = "input_not_file"])
         ELSE IF container \notin SupportedContainers
         THEN except_exception(j, [job[j] EXCEPT
                                     !.ended = "unsupported_container"])
         ELSE /\ job' = [job EXCEPT ![j].pc = "overwrite_check"]
              /\ stats' = stats
    /\ UNCHANGED <<params, unit_vars, mpc, exit_code, interrupted, results,
                   completed, progress, consumed>>

\* Mutant of overwrite_check: the policy check is skipped.
overwrite_check_skipped(j) ==
    /\ job[j].pc = "overwrite_check"
    /\ \E out \in {"absent", "old"} :
         job' = [job EXCEPT ![j].pc = "probe", ![j].out_file = out]
    /\ UNCHANGED <<params, unit_vars, mpc, exit_code, interrupted, stats, results,
                   completed, progress, consumed>>

\* dav2mkv.py:330-335  output exists and overwrite disabled: return False.
overwrite_check(j) ==
    /\ job[j].pc = "overwrite_check"
    /\ \E out \in {"absent", "old"} :
         IF out = "old" /\ ~overwrite
         THEN job' = [job EXCEPT ![j].pc = "returned",
                                 ![j].ended = "overwrite_rejected",
                                 ![j].result = "False",
                                 ![j].out_file = out]
         ELSE job' = [job EXCEPT ![j].pc = "probe", ![j].out_file = out]
    /\ UNCHANGED <<params, unit_vars, mpc, exit_code, interrupted, stats, results,
                   completed, progress, consumed>>

\* Mutant of probe: a probe that yields None ends the call with False.
probe_fatal(j) ==
    /\ job[j].pc = "probe"
    /\ \E r \in {"info", "None"} :
         IF r = "None"
         THEN job' = [job EXCEPT ![j].pc = "returned",
                                 ![j].ended = "probe_failed",
                                 ![j].result = "False",
                                 ![j].spawned = @ \cup {"ffprobe"}]
         ELSE job' = [job EXCEPT ![j].pc = "mkdir",
                                 ![j].spawned = @ \cup {"ffprobe"},
                                 ![j].video_info = r]
    /\ UNCHANGED <<params, unit_vars, mpc, exit_code, interrupted, stats, results,
                   completed, progress, consumed>>

\* dav2mkv.py:337-344 with get_video_info (208-266): ffprobe is run on the
\* input; every failure of it yields None and the call goes on.
probe(j) ==
    /\ job[j].pc = "probe"
    /\ \E r \in {"info", "None"} :
         job' = [job EXCEPT ![j].pc = "mkdir",
                            ![j].spawned = @ \cup {"ffprobe"},
                            ![j].video_info = r]
    /\ UNCHANGED <<params, unit_vars, mpc, exit_code, interrupted, stats, results,
                   completed, progress, consumed>>

\* dav2mkv.py:346-347  output_file.parent.mkdir(parents=True, exist_ok=True);
\* an OSError is caught at line 417.
mkdir(j) ==
    /\ job[j].pc = "mkdir"
    /\ \/ /\ job' = [job EXCEPT ![j].pc = "engine", ![j].dir_made = TRUE]
          /\ stats' = stats
       \/ except_exception(j, [job[j] EXCEPT !.ended = "mkdir_error"])
    /\ UNCHANGED <<params, unit_vars, mpc, exit_code, interrupted, results,
                   completed, progress, consumed>>

\* Mutant of engine: a non-zero exit status is answered by running the
\* engine again.
engine_retries(j) ==
    /\ job[j].pc = "engine"
    /\ \/ \E out \in {"new", "empty", "absent"} :
            /\ job' = [job EXCEPT ![j].pc = "verify",
                                  ![j].spawned = @ \cup {"ffmpeg"},
                                  ![j].engine_rc = "zero",
                                  ![j].out_file = out]
            /\ stats' = stats
       \/ /\ job' = [job EXCEPT ![j].spawned = @ \cup {"ffmpeg"},
                                 ![j].engine_rc = "nonzero"]
          /\ stats' = stats
       \/ except_timeout(j, [job[j] EXCEPT
                               !.spawned = @ \cup {"ffmpeg"},
                               !.engine_rc = "timeout",
                               !.ended = "engine_timeout"])
       \/ except_exception(j, [job[j] EXCEPT !.ended = "engine_launch_error"])
    /\ UNCHANGED <<params, unit_vars, mpc, exit_code, interrupted, results,
                   completed, progress, consumed>>

\* dav2mkv.py:354-408  subprocess.run of ffmpeg and the branch on its
\* return code; TimeoutExpired goes to line 410, a failure to launch
\* (FileNotFoundError and the like) to line 417.
engine(j) ==
    /\ job[j].pc = "engine"
    /\ \/ \E out \in {"new", "empty", "absent"} :
            /\ job' = [job EXCEPT ![j].pc = "verify",
                                  ![j].spawned = @ \cup {"ffmpeg"},
                                  ![j].engine_rc = "zero",
                                  ![j].out_file = out]
            /\ stats' = stats
       \/ return_engine_failed(j, [job[j] EXCEPT
                                     !.spawned = @ \cup {"ffmpeg"},
                                     !.engine_rc = "nonzero",
                                     !.ended = "engine_nonzero"])
       \/ except_timeout(j, [job[j] EXCEPT
                               !.spawned = @ \cup {"ffmpeg"},
                               !.engine_rc = "timeout",
                               !.ended = "engine_timeout"])
       \/ except_exception(j, [job[j] EXCEPT !.ended = "engine_launch_error"])
    /\ UNCHANGED <<params, unit_vars, mpc, exit_code, interrupted, results,
                   completed, progress, consumed>>

\* Mutant of size_warning: the two limits themselves warn.
size_warning_inclusive(output_size, input_size) ==
    IF input_size > 0
    THEN 10 * output_size <= 8 * input_size
             \/ 10 * output_size >= 12 * input_size
    ELSE TRUE

\* dav2mkv.py:495-500  the size relation, which only decides on a warning:
\* size_ratio < 0.8 or size_ratio > 1.2, the ratio being 0 for an empty
\* input.
size_warning(output_size, input_size) ==
    IF input_size > 0
    THEN 10 * output_size < 8 * input_size
             \/ 10 * output_size > 12 * input_size
    ELSE TRUE

\* A verification that also fails on the warning: that of the mutant.
verify_output_file_strict(out_exists, output_size, in_readable, input_size) ==
    /\ out_exists
    /\ output_size # 0
    /\ in_readable
    /\ ~size_warning(output_size, input_size)

\* dav2mkv.py:472-508  _verify_output_file: the output must exist and be
\* non-empty; input_file.stat() raising (the input is gone or cannot be
\* read) ends in the handler at 506-508, which answers False; the size
\* relation changes nothing.
verify_output_file(out_exists, output_size, in_readable, input_size) ==
    IF ~out_exists THEN FALSE
    ELSE IF output_size = 0 THEN FALSE
    ELSE IF ~in_readable THEN FALSE
    ELSE TRUE

\* dav2mkv.py:387-399  the verification that follows a zero exit status.
\* The sizes are abstracted to empty / not empty here.
verify(j) ==
    /\ job[j].pc = "verify"
    /\ \E in_readable \in BOOLEAN :
         IF verify_output_file(job[j].out_file # "absent",
                               IF job[j].out_file = "new" THEN 1 ELSE 0,
                               in_readable, 1)
         THEN return_success(j, [job[j] EXCEPT !.verified = "pass",
                                               !.ended = "converted"])
         ELSE return_verify_failed(j, [job[j] EXCEPT
                                         !.verified = "fail",
                                         !.ended = "verification_failed"])
    /\ UNCHANGED <<params, unit_vars, mpc, exit_code, interrupted, results,
                   completed, progress, consumed>>

\* The steps of a call once it is entered.
job_step(j) ==
    \/ validate(j)
    \/ overwrite_check(j)
    \/ probe(j)
    \/ mkdir(j)
    \/ engine(j)
    \/ verify(j)

----------------------------------------------------------------------------
(* A library caller: convert_video called from the caller's own threads *)

\* The calls are issued in index order; once issued they run concurrently.
call_convert_video(j) ==
    /\ mode = "api"
    /\ j <= nfiles
    /\ job[j].pc = "idle"
    /\ \A i \in 1..(j - 1) : job[i].pc # "idle"
    /\ begin(j)
    /\ UNCHANGED <<params, unit_vars, mpc, exit_code, interrupted, results,
                   completed, progress, consumed>>

----------------------------------------------------------------------------
(* main() *)

\* Mutant of main_check: the answer of the tool check is ignored.
main_check_ignored ==
    /\ mpc = "check"
    /\ mpc' = IF mode = "file" THEN "single" ELSE "convert_directory"
    /\ UNCHANGED <<params, unit_vars, exit_code, interrupted, stats, job, results,
                   completed, progress, consumed>>

\* dav2mkv.py:777-791  the tool check, once, before any converter exists;
\* FFmpegNotFoundError is caught at line 845: return 127.
main_check ==
    /\ mpc = "check"
    /\ IF ffmpeg_available
       THEN /\ mpc' = IF mode = "file" THEN "single" ELSE "convert_directory"
            /\ exit_code' = exit_code
       ELSE /\ mpc' = "exit"
            /\ exit_code' = 127
    /\ UNCHANGED <<params, unit_vars, interrupted, stats, job, results,
                   completed, progress, consumed>>

\* dav2mkv.py:794-799  the single call, on the main thread.
main_single_call ==
    /\ mpc = "single"
    /\ job[1].pc = "idle"
    /\ begin(1)
    /\ UNCHANGED <<params, unit_vars, mpc, exit_code, interrupted, results,
                   completed, progress, consumed>>

\* dav2mkv.py:805  return 0 if success else 1
single_exit_code(success) == IF success THEN 0 ELSE 1

\* dav2mkv.py:801-805, and 847-849 when the call raised.
main_single_return ==
    /\ mpc = "single"
    /\ Finished(1)
    /\ exit_code' = IF job[1].pc = "raised" THEN 1
                    ELSE single_exit_code(job[1].result = "True")
    /\ mpc' = "exit"
    /\ UNCHANGED <<params, unit_vars, interrupted, stats, job, results,
                   completed, progress, consumed>>

\* Mutant of batch_exit_code: the codes of partial and total failure are
\* swapped.
batch_exit_code_swapped(res) ==
    IF res.failed = 0 THEN 0
    ELSE IF res.successful > 0 THEN 1
    ELSE 2

\* dav2mkv.py:829-840
batch_exit_code(res) ==
    IF res.failed = 0 THEN 0
    ELSE IF res.successful > 0 THEN 2
    ELSE 1

\* dav2mkv.py:823-840  the exit code of a directory run.
main_batch_return ==
    /\ mpc = "map_exit"
    /\ exit_code' = batch_exit_code(results)
    /\ mpc' = "exit"
    /\ UNCHANGED <<params, unit_vars, interrupted, stats, job, results,
                   completed, progress, consumed>>

----------------------------------------------------------------------------
(* BatchConverter.convert_directory *)

NoResults == [total |-> 0, successful |-> 0, failed |-> 0]

\* No "Progress:" line has been logged.
NoProgress == [lines |-> 0, completed |-> 0, successful |-> 0, failed |-> 0]

\* dav2mkv.py:673-676  logger.info("Progress: {completed}/{total} files
\* processed ({successful} successful, {failed} failed)")
log_progress(log, n, res) ==
    [lines |-> log.lines + 1, completed |-> n,
     successful |-> res.successful, failed |-> res.failed]

\* Mutant of convert_directory_begin: the pool is opened whatever the
\* number of candidates.
convert_directory_begin_opens_pool ==
    /\ mpc = "convert_directory"
    /\ results' = [total |-> nfiles, successful |-> 0, failed |-> 0]
    /\ mpc' = "submit"
    /\ UNCHANGED <<params, unit_vars, exit_code, interrupted, stats, job,
                   completed, progress, consumed>>

\* dav2mkv.py:623-631  discovery; no candidates: return zeros at once.
convert_directory_begin ==
    /\ mpc = "convert_directory"
    /\ IF nfiles = 0
       THEN /\ results' = [total |-> 0, successful |-> 0, failed |-> 0]
            /\ mpc' = "map_exit"
       ELSE /\ results' = [total |-> nfiles, successful |-> 0, failed |-> 0]
            /\ mpc' = "submit"
    /\ UNCHANGED <<params, unit_vars, exit_code, interrupted, stats, job,
                   completed, progress, consumed>>

\* dav2mkv.py:641-658  executor.submit, one future per candidate, in
\* discovery order.
submit(j) ==
    /\ mpc = "submit"
    /\ j <= nfiles
    /\ job[j].pc = "idle"
    /\ \A i \in 1..(j - 1) : job[i].pc # "idle"
    /\ job' = [job EXCEPT ![j].pc = "queued"]
    /\ mpc' = IF j = nfiles THEN "as_completed" ELSE "submit"
    /\ UNCHANGED <<params, unit_vars, exit_code, interrupted, stats, results,
                   completed, progress, consumed>>

\* Mutant of worker_start: one thread per submitted call, no pool bound.
worker_start_unbounded(j) ==
    /\ mode = "dir"
    /\ job[j].pc = "queued"
    /\ \A i \in 1..(j - 1) : job[i].pc # "queued"
    /\ begin(j)
    /\ UNCHANGED <<params, unit_vars, mpc, exit_code, interrupted, results,
                   completed, progress, consumed>>

\* Mutant of worker_start: a failed call cancels the calls still queued.
worker_start_unless_sibling_failed(j) ==
    /\ mode = "dir"
    /\ job[j].pc = "queued"
    /\ \A i \in 1..(j - 1) : job[i].pc # "queued"
    /\ \A i \in Jobs : job[i].result \notin {"False", "raise"}
    /\ NumRunning < max_workers
    /\ begin(j)
    /\ UNCHANGED <<params, unit_vars, mpc, exit_code, interrupted, results,
                   completed, progress, consumed>>

\* Mutant of worker_start: the worker thread itself writes a fault of its
\* call into the results.
worker_start_writes_results(j) ==
    /\ mode = "dir"
    /\ job[j].pc = "queued"
    /\ \A i \in 1..(j - 1) : job[i].pc # "queued"
    /\ NumRunning < max_workers
    /\ begin(j)
    /\ results' = IF job'[j].pc = "raised"
                  THEN [results EXCEPT !.failed = @ + 1]
                  ELSE results
    /\ UNCHANGED <<params, unit_vars, mpc, exit_code, interrupted,
                   completed, progress, consumed>>

\* dav2mkv.py:637  ThreadPoolExecutor(max_workers=self.max_workers): a
\* worker takes the oldest queued call when fewer than max_workers run.
worker_start(j) ==
    /\ mode = "dir"
    /\ job[j].pc = "queued"
    /\ \A i \in 1..(j - 1) : job[i].pc # "queued"
    /\ NumRunning < max_workers
    /\ begin(j)
    /\ UNCHANGED <<params, unit_vars, mpc, exit_code, interrupted, results,
                   completed, progress, consumed>>

\* Mutant of fold_result: the except branch forgets to count the fault.
fold_result_drops_fault(res, outcome) ==
    IF outcome = "True"
    THEN [res EXCEPT !.successful = @ + 1]
    ELSE IF outcome = "False"
    THEN [res EXCEPT !.failed = @ + 1]
    ELSE res

\* dav2mkv.py:666-680  one future's outcome folded into the results.
fold_result(res, outcome) ==
    IF outcome = "True"
    THEN [res EXCEPT !.successful = @ + 1]
    ELSE [res EXCEPT !.failed = @ + 1]

\* Mutant of consume: the except branch of lines 678-680 is missing, so a
\* fault of a call leaves convert_directory and main answers 1.
consume_reraises(j) ==
    /\ mpc = "as_completed"
    /\ j \notin consumed
    /\ Finished(j)
    /\ completed' = completed + 1
    /\ consumed' = consumed \cup {j}
    /\ IF job[j].result = "raise"
       THEN /\ results' = results
            /\ progress' = progress
            /\ mpc' = "exit"
            /\ exit_code' = 1
       ELSE /\ results' = fold_result(results, job[j].result)
            /\ progress' = log_progress(progress, completed', results')
            /\ mpc' = mpc
            /\ exit_code' = exit_code
    /\ UNCHANGED <<params, unit_vars, interrupted, stats, job>>

\* Mutant of consume: the futures are waited for in submission order.
consume_in_submission_order(j) ==
    /\ mpc = "as_completed"
    /\ j \notin consumed
    /\ \A i \in 1..(j - 1) : i \in consumed
    /\ Finished(j)
    /\ completed' = completed + 1
    /\ results' = fold_result(results, job[j].result)
    /\ progress' = IF job[j].result = "raise"
                   THEN progress
                   ELSE log_progress(progress, completed', results')
    /\ consumed' = consumed \cup {j}
    /\ UNCHANGED <<params, unit_vars, mpc, exit_code, interrupted, stats, job>>

\* dav2mkv.py:662-680  as_completed yields a finished future: completed
\* is counted up, the outcome is folded into the results and, in the try
\* branch only, the progress line is logged; the except branch (678-680)
\* logs an error and no progress line.
consume(j) ==
    /\ mpc = "as_completed"
    /\ j \notin consumed
    /\ Finished(j)
    /\ completed' = completed + 1
    /\ results' = fold_result(results, job[j].result)
    /\ progress' = IF job[j].result = "raise"
                   THEN progress
                   ELSE log_progress(progress, completed', results')
    /\ consumed' = consumed \cup {j}
    /\ UNCHANGED <<params, unit_vars, mpc, exit_code, interrupted, stats, job>>

\* Mutant of convert_directory_return: the results are returned as soon as
\* one future was yielded, without waiting for the rest.
convert_directory_return_early ==
    /\ mpc = "as_completed"
    /\ consumed # {}
    /\ mpc' = "map_exit"
    /\ UNCHANGED <<params, unit_vars, exit_code, interrupted, stats, job, results,
                   completed, progress, consumed>>

\* dav2mkv.py:662, 682-683  every future was yielded: leave the with block
\* and return the results.
convert_directory_return ==
    /\ mpc = "as_completed"
    /\ consumed = 1..nfiles
    /\ mpc' = "map_exit"
    /\ UNCHANGED <<params, unit_vars, exit_code, interrupted, stats, job, results,
                   completed, progress, consumed>>

----------------------------------------------------------------------------
(* Operator interruption *)

\* dav2mkv.py:842-844  KeyboardInterrupt reaches main's handler at once
\* when no pool is open; in single-file mode it ends the running call
\* (convert_video catches Exception only, lines 410-417).
keyboard_interrupt ==
    /\ \/ mode = "dir" /\ mpc \in {"check", "convert_directory", "map_exit"}
       \/ mode = "file" /\ mpc \in {"check", "single"}
    /\ interrupted' = TRUE
    /\ job' = [j \in Jobs |->
                 IF Running(j) THEN [job[j] EXCEPT !.pc = "aborted"]
                 ELSE job[j]]
    /\ exit_code' = 130
    /\ mpc' = "exit"
    /\ UNCHANGED <<params, unit_vars, stats, results, completed, progress, consumed>>

\* dav2mkv.py:637-680  KeyboardInterrupt inside the with block: the
\* executor's exit runs shutdown(wait=True) before the exception leaves.
keyboard_interrupt_in_pool ==
    /\ mpc \in {"submit", "as_completed"}
    /\ interrupted' = TRUE
    /\ mpc' = "shutdown"
    /\ UNCHANGED <<params, unit_vars, exit_code, stats, job, results,
                   completed, progress, consumed>>

\* dav2mkv.py:637, 842-844  shutdown(wait=True) returns when the workers
\* have drained the queue; then main returns 130.
shutdown_return ==
    /\ mpc = "shutdown"
    /\ \A j \in Jobs : job[j].pc # "queued" /\ ~Running(j)
    /\ exit_code' = 130
    /\ mpc' = "exit"
    /\ UNCHANGED <<params, unit_vars, interrupted, stats, job, results,
                   completed, progress, consumed>>

----------------------------------------------------------------------------
(* BatchConverter.find_video_files *)

\* A file name is the sequence of its character codes; a path is the
\* sequence of its names below the searched directory.

\* dav2mkv.py:525-542  self.video_extensions
video_extensions ==
    {<<46, 100, 97, 118>>,       \* .dav
     <<46, 97, 118, 105>>,       \* .avi
     <<46, 109, 112, 52>>,       \* .mp4
     <<46, 109, 107, 118>>,      \* .mkv
     <<46, 109, 111, 118>>,      \* .mov
     <<46, 119, 109, 118>>,      \* .wmv
     <<46, 102, 108, 118>>,      \* .flv
     <<46, 119, 101, 98, 109>>,  \* .webm
     <<46, 109, 52, 118>>,       \* .m4v
     <<46, 51, 103, 112>>,       \* .3gp
     <<46, 51, 103, 50>>,        \* .3g2
     <<46, 97, 115, 102>>,       \* .asf
     <<46, 114, 109>>,           \* .rm
     <<46, 114, 109, 118, 98>>,  \* .rmvb
     <<46, 118, 111, 98>>,       \* .vob
     <<46, 116, 115>>}           \* .ts

\* dav2mkv.py:579  str.lower(), on the ASCII letters.
lower(s) ==
    [i \in 1..Len(s) |-> IF s[i] \in 65..90 THEN s[i] + 32 ELSE s[i]]

\* str.upper(), used to build inputs.
upper(s) ==
    [i \in 1..Len(s) |-> IF s[i] \in 97..122 THEN s[i] - 32 ELSE s[i]]

\* dav2mkv.py:579  Path.suffix: the name from its last dot on, unless that
\* dot opens or closes the name.
suffix(file_name) ==
    LET dots == {i \in 1..Len(file_name) : file_name[i] = 46}
        k == IF dots = {} THEN 0
             ELSE CHOOSE i \in dots : \A d \in dots : d <= i
    IN  IF 1 < k /\ k < Len(file_name)
        THEN SubSeq(file_name, k, Len(file_name))
        ELSE <<>>

\* The last name of a path (Path.name).
name(path) == path[Len(path)]

\* dav2mkv.py:578-579 without the lower(): the filter of the mutant.
is_video_file_case_sensitive(e) ==
    e.is_file /\ suffix(name(e.path)) \in video_extensions

\* dav2mkv.py:577-580  the condition of the loop body.
is_video_file(e) ==
    e.is_file /\ lower(suffix(name(e.path))) \in video_extensions

\* Python's order of two strings: by the first position where they differ,
\* a proper prefix first.
str_lt(a, b) ==
    LET n == IF Len(a) < Len(b) THEN Len(a) ELSE Len(b)
        diff == {i \in 1..n : a[i] # b[i]}
    IN  IF diff = {} THEN Len(a) < Len(b)
        ELSE LET i == CHOOSE x \in diff : \A y \in diff : x <= y
             IN  a[i] < b[i]

\* dav2mkv.py:585  the order sorted() uses, Path.__lt__: the paths' names
\* are compared one by one, a proper prefix first.
path_lt(p, q) ==
    LET n == IF Len(p) < Len(q) THEN Len(p) ELSE Len(q)
        diff == {i \in 1..n : p[i] # q[i]}
    IN  IF diff = {} THEN Len(p) < Len(q)
        ELSE LET i == CHOOSE x \in diff : \A y \in diff : x <= y
             IN  str_lt(p[i], q[i])

RECURSIVE insert(_, _)
\* One path put in its place in an ascending list.
insert(lst, p) ==
    IF lst = <<>> THEN <<p>>
    ELSE IF path_lt(p, Head(lst)) THEN <<p>> \o lst
    ELSE <<Head(lst)>> \o insert(Tail(lst), p)

RECURSIVE sorted_from(_, _)
sorted_from(lst, acc) ==
    IF lst = <<>> THEN acc ELSE sorted_from(Tail(lst), insert(acc, Head(lst)))

\* The list as it was collected: the result of the mutant.
unsorted(lst) == lst

\* dav2mkv.py:585  sorted(video_files)
sorted(lst) == sorted_from(lst, <<>>)

\* An iterator that yields the direct children whatever the flag: that of
\* the mutant.
Scope_children_only == {e \in tree : Len(e.path) = 1}

\* The entries the iterator yields: dav2mkv.py:570-574, rglob("**/*") yields
\* everything below the directory, iterdir() its direct children.
Scope ==
    IF recursive THEN tree ELSE {e \in tree : Len(e.path) = 1}

NoCall == [pc |-> "none", found |-> <<>>]

\* Largest number of entries of a tree drawn from OtherEntries.
MaxEntries == 3

\* Extensions outside the allow-list: .txt, .davx, .da
OtherExtensions ==
    {<<46, 116, 120, 116>>, <<46, 100, 97, 118, 120>>, <<46, 100, 97>>}

\* An extension as written, in capitals, and with its first letter in
\* capitals.
Cased(ext) ==
    {ext, upper(ext), <<ext[1], upper(ext)[2]>> \o SubSeq(ext, 3, Len(ext))}

File(path) == [path |-> path, is_file |-> TRUE]
Dir(path) == [path |-> path, is_file |-> FALSE]

\* A file "p" with any extension in any of the three letter cases.
ProbeEntries ==
    {File(<< <<112>> \o x >>) :
        x \in UNION {Cased(ext) : ext \in video_extensions \cup OtherExtensions}}

OtherEntries ==
    {File(<< <<97, 46, 100, 97, 118>> >>),               \* a.dav
     File(<< <<66, 46, 77, 75, 86>> >>),                 \* B.MKV
     File(<< <<104, 46, 116, 120, 116>> >>),             \* h.txt
     File(<< <<46, 100, 97, 118>> >>),                   \* .dav
     File(<< <<102, 46, 100, 97, 118, 46>> >>),          \* f.dav.
     File(<< <<103, 46, 116, 97, 114, 46, 116, 115>> >>),\* g.tar.ts
     File(<< <<115, 117, 98, 46, 97, 118, 105>> >>),     \* sub.avi
     File(<< <<110, 111, 101, 120, 116>> >>),            \* noext
     Dir(<< <<99, 108, 105, 112, 46, 109, 107, 118>> >>),\* clip.mkv/
     Dir(<< <<115, 117, 98>> >>),                        \* sub/
     File(<< <<115, 117, 98>>, <<101, 46, 109, 112, 52>> >>)} \* sub/e.mp4

\* An entry below a subdirectory comes with that subdirectory.
Closed(S) ==
    \A e \in S : Len(e.path) > 1 =>
        Dir(SubSeq(e.path, 1, Len(e.path) - 1)) \in S

Trees ==
    {{p} : p \in ProbeEntries}
    \cup {S \in SUBSET OtherEntries : Cardinality(S) <= MaxEntries /\ Closed(S)}

\* dav2mkv.py:557-567  the checks before the scan.  Path.exists() answers
\* False when the path is not there and lets any other OSError (no
\* permission to look) through to the caller.
find_video_files_begin ==
    /\ fpc = "call"
    /\ CASE directory = "unreachable" -> /\ fpc' = "raised"
                                         /\ UNCHANGED found
         [] directory = "missing" -> /\ fpc' = "returned_empty"
                                     /\ found' = <<>>
         [] directory = "file" -> /\ fpc' = "returned_empty"
                                  /\ found' = <<>>
         [] directory = "dir" -> /\ fpc' = "iterating"
                                 /\ UNCHANGED found
    /\ video_files' = <<>>
    /\ seen' = {}
    /\ UNCHANGED <<non_discovery_vars, directory, recursive, tree, previous>>

\* dav2mkv.py:576-582  one round of the loop, on whichever entry the
\* iterator yields next.
iterate ==
    /\ fpc = "iterating"
    /\ \E e \in Scope \ seen :
         /\ seen' = seen \cup {e}
         /\ video_files' = IF is_video_file(e)
                           THEN Append(video_files, e.path)
                           ELSE video_files
    /\ UNCHANGED <<non_discovery_vars, directory, recursive, tree, fpc, found,
                   previous>>

\* The handler answering with what was collected: the handler of the mutant.
iterate_error_keeps_list ==
    /\ fpc = "iterating"
    /\ fpc' = "returned_empty"
    /\ found' = sorted(video_files)
    /\ UNCHANGED <<non_discovery_vars, directory, recursive, tree, seen, video_files,
                   previous>>

\* dav2mkv.py:587-589  the iterator raises (no permission, I/O error), at
\* its creation or at any round: the list so far is dropped.
iterate_error ==
    /\ fpc = "iterating"
    /\ fpc' = "returned_empty"
    /\ found' = <<>>
    /\ UNCHANGED <<non_discovery_vars, directory, recursive, tree, seen, video_files,
                   previous>>

\* dav2mkv.py:584-585  the iterator is exhausted.
find_video_files_return ==
    /\ fpc = "iterating"
    /\ seen = Scope
    /\ fpc' = "returned"
    /\ found' = sorted(video_files)
    /\ UNCHANGED <<non_discovery_vars, directory, recursive, tree, seen, video_files,
                   previous>>

\* A second call on the same directory, nothing below it having changed.
find_video_files_again ==
    /\ fpc \in {"returned", "returned_empty", "raised"}
    /\ previous = NoCall
    /\ previous' = [pc |-> fpc, found |-> found]
    /\ fpc' = "call"
    /\ UNCHANGED <<non_discovery_vars, directory, recursive, tree, seen, video_files,
                   found>>

\* A caller that has the non-recursive list calls again on the same
\* directory, this time with recursive=True (dav2mkv.py:544-546).
find_video_files_recursively ==
    /\ fpc = "returned"
    /\ ~recursive
    /\ flat = NoCall
    /\ flat' = [pc |-> fpc, found |-> found]
    /\ recursive' = TRUE
    /\ fpc' = "call"
    /\ UNCHANGED <<non_discovery_depth_vars, directory, tree, seen,
                   video_files, found, previous>>

DepthIdle == flat = NoCall

\* No find_video_files call is modelled.
DiscoveryIdle ==
    /\ directory = "dir"
    /\ recursive = FALSE
    /\ tree = {}
    /\ seen = {}
    /\ video_files = <<>>
    /\ fpc = "idle"
    /\ found = <<>>
    /\ previous = NoCall

----------------------------------------------------------------------------
(* The output path of a conversion *)

\* The characters of a container token.
container_token(c) ==
    CASE c = "mkv" -> <<109, 107, 118>>
      [] c = "mp4" -> <<109, 112, 52>>
      [] c = "avi" -> <<97, 118, 105>>

\* Path.with_suffix with the name given the new suffix after its old one:
\* the derivation of the mutant.
append_suffix(path, sfx) ==
    SubSeq(path, 1, Len(path) - 1) \o <<name(path) \o sfx>>

\* dav2mkv.py:326, 645, 649  Path.with_suffix: the suffix of the last name
\* is cut off, if it has one, and the new one put at its end.
with_suffix(path, sfx) ==
    LET n == name(path)
        stem == SubSeq(n, 1, Len(n) - Len(suffix(n)))
    IN  SubSeq(path, 1, Len(path) - 1) \o <<stem \o sfx>>

\* dav2mkv.py:644  Path.relative_to, for a path below the base (which every
\* path find_video_files returns is).
relative_to(path, base) == SubSeq(path, Len(base) + 1, Len(path))

\* dav2mkv.py:325-328  convert_video: the output path when none is given.
convert_video_output ==
    /\ ppc = "call"
    /\ caller = "convert_video"
    /\ output_file' =
         IF output = <<>>
         THEN with_suffix(video_file, <<46>> \o container_token(container))
         ELSE output
    /\ ppc' = "derived"
    /\ UNCHANGED <<non_path_vars, caller, input_path, output, video_file>>

\* dav2mkv.py:614-618, 641-649  convert_directory: the output directory and
\* the output path of one candidate.
directory_output_file(candidate, input_dir, out, c) ==
    LET output_dir == IF out # <<>> THEN out ELSE input_dir
        sfx == <<46>> \o container_token(c)
    IN  IF output_dir # input_dir
        THEN output_dir \o with_suffix(relative_to(candidate, input_dir), sfx)
        ELSE with_suffix(candidate, sfx)

\* dav2mkv.py:641-649  the output path of one candidate, derived.
convert_directory_output ==
    /\ ppc = "call"
    /\ caller = "convert_directory"
    /\ output_file' = directory_output_file(video_file, input_path, output,
                                            container)
    /\ ppc' = "derived"
    /\ UNCHANGED <<non_path_vars, caller, input_path, output, video_file>>

\* No output path is derived.
PathIdle ==
    /\ caller = "none"
    /\ input_path = <<>>
    /\ output = <<>>
    /\ video_file = <<>>
    /\ output_file = <<>>
    /\ ppc = "idle"

----------------------------------------------------------------------------
(* VideoConverter._verify_output_file called on its own *)

\* Largest file size: large enough for an output of 0.95 times its input.
MaxSize == 20

\* dav2mkv.py:472-508  one call: its answer, and whether line 496 logged
\* the size warning (which it reaches only when nothing failed before).
verify_call ==
    /\ verdict = "none"
    /\ verdict' = IF verify_output_file(output_exists, output_bytes, input_readable,
                                        input_bytes)
                  THEN "True" ELSE "False"
    /\ warned' = (/\ output_exists
                  /\ output_bytes # 0
                  /\ input_readable
                  /\ size_warning(output_bytes, input_bytes))
    /\ UNCHANGED <<non_verify_vars, output_exists, output_bytes, input_readable,
                   input_bytes>>

\* No _verify_output_file call is modelled.
VerifyIdle ==
    /\ output_exists = FALSE
    /\ output_bytes = 0
    /\ input_readable = FALSE
    /\ input_bytes = 0
    /\ verdict = "none"
    /\ warned = FALSE

----------------------------------------------------------------------------
(* VideoConverter.get_stats and its caller *)

\* Largest number of get_stats calls of a run.
MaxReads == 2

\* The dictionary the caller holds.
ReturnedStats == IF returned = "live" THEN stats ELSE snapshot

\* A get_stats that hands out _stats itself: that of the mutant.
get_stats_live ==
    /\ mpc = "api"
    /\ reads < MaxReads
    /\ returned' = "live"
    /\ reads' = reads + 1
    /\ UNCHANGED <<driver_vars, non_reader_unit_vars,
                   snapshot, mutated>>

\* dav2mkv.py:510-513  get_stats: self._stats.copy() under the lock.
get_stats ==
    /\ mpc = "api"
    /\ reads < MaxReads
    /\ returned' = "copy"
    /\ snapshot' = stats
    /\ reads' = reads + 1
    /\ UNCHANGED <<driver_vars, non_reader_unit_vars,
                   mutated>>

\* The caller writes into the dictionary it was given
\* (tests/test_video_converter.py:316  initial_stats[...] = 999).
mutate_returned ==
    /\ returned # "none"
    /\ ReturnedStats.conversions_attempted # 999
    /\ IF returned = "live"
       THEN /\ stats' = [stats EXCEPT !.conversions_attempted = 999]
            /\ UNCHANGED snapshot
       ELSE /\ snapshot' = [snapshot EXCEPT !.conversions_attempted = 999]
            /\ UNCHANGED stats
    /\ mutated' = TRUE
    /\ UNCHANGED <<params, mpc, exit_code, interrupted, job, results,
                   completed, progress, consumed, non_reader_unit_vars, returned,
                   reads>>

\* get_stats has not been called.
ReaderIdle ==
    /\ returned = "none"
    /\ snapshot = InitStats
    /\ reads = 0
    /\ mutated = FALSE

----------------------------------------------------------------------------
(* BatchConverter.__init__: the size of the worker pool *)

\* Largest number of CPUs, and largest max_workers argument.
MaxCpus == 8

\* The default without its lower limit: that of the mutant.
default_workers_unclamped(cpus) == cpus - 1

\* dav2mkv.py:522  max(1, multiprocessing.cpu_count() - 1)
default_workers(cpus) == IF cpus - 1 > 1 THEN cpus - 1 ELSE 1

\* dav2mkv.py:519-522  self.max_workers = max_workers or <default>: None
\* and 0 are false, every other number is taken as it is.
batch_converter_init ==
    /\ ~constructed
    /\ constructed' = TRUE
    /\ pool_size' = IF workers_given /\ workers_arg # 0
                    THEN workers_arg
                    ELSE default_workers(cpu_count)
    /\ UNCHANGED <<non_pool_vars, cpu_count, workers_given, workers_arg>>

\* No BatchConverter is constructed on its own.
PoolIdle ==
    /\ cpu_count = 1
    /\ workers_given = FALSE
    /\ workers_arg = 0
    /\ pool_size = 0
    /\ constructed = FALSE

----------------------------------------------------------------------------
(* VideoConverter.get_video_info called on its own *)

\* Largest number of streams in ffprobe's output.
MaxStreams == 2

\* dav2mkv.py:159-165  the keys stream_counts starts with.
StreamTypes == {"video", "audio", "subtitle", "data", "unknown"}

\* A stream is given by its codec_type, "absent" when it has none.
CodecTypes == {"video", "audio", "subtitle", "absent"}

NoCounts == [t \in StreamTypes |-> 0]

\* dav2mkv.py:167-169  VideoInfo.__init__: one count per stream, under
\* its codec_type or under "unknown".
stream_counts(streams) ==
    [t \in StreamTypes |->
        Cardinality({i \in 1..Len(streams) :
            (IF streams[i] = "absent" THEN "unknown" ELSE streams[i]) = t})]

\* How a run of ffprobe ends: its exit status (or the exception of
\* subprocess.run) and what it printed: no JSON, JSON that is no object,
\* or an object with these streams.
ToolRuns ==
    [rc : {"nonzero", "timeout", "launch_error"}, stdout : {"unparsable"},
     streams : {<<>>}]
    \cup [rc : {"zero"}, stdout : {"unparsable", "not_object"},
          streams : {<<>>}]
    \cup [rc : {"zero"}, stdout : {"object"},
          streams : UNION {[1..n -> CodecTypes] : n \in 0..MaxStreams}]

\* dav2mkv.py:220-230  the checks before the run.  Path.exists() answers
\* False when the path is not there and lets any other OSError (no
\* permission to look) through to the caller.
get_video_info_check ==
    /\ gpc = "call"
    /\ CASE probed_path = "unreachable" ->
               /\ info_kind' = "raise"
               /\ gpc' = "done"
         [] probed_path \in {"missing", "dir"} ->
               /\ info_kind' = "None"
               /\ gpc' = "done"
         [] probed_path = "file" ->
               /\ info_kind' = info_kind
               /\ gpc' = "run"
    /\ UNCHANGED <<non_probe_vars, probed_path, tool_run, info_counts,
                   probe_spawned>>

\* A run whose timeout is not handled: that of the mutant.
get_video_info_run_unguarded ==
    /\ gpc = "run"
    /\ gpc' = "done"
    /\ probe_spawned' = (tool_run.rc # "launch_error")
    /\ info_kind' = IF tool_run.rc = "timeout" THEN "raise"
                    ELSE IF tool_run.rc = "zero" /\ tool_run.stdout = "object"
                    THEN "VideoInfo" ELSE "None"
    /\ info_counts' = IF tool_run.rc = "zero" /\ tool_run.stdout = "object"
                      THEN stream_counts(tool_run.streams) ELSE info_counts
    /\ UNCHANGED <<non_probe_vars, probed_path, tool_run>>

\* dav2mkv.py:243-266  subprocess.run of ffprobe, json.loads and
\* VideoInfo(data); TimeoutExpired, JSONDecodeError and every other
\* exception (the tool cannot be launched, the JSON is no object) end in a
\* handler that returns None.
get_video_info_run ==
    /\ gpc = "run"
    /\ gpc' = "done"
    /\ probe_spawned' = (tool_run.rc # "launch_error")
    /\ IF tool_run.rc = "zero" /\ tool_run.stdout = "object"
       THEN /\ info_kind' = "VideoInfo"
            /\ info_counts' = stream_counts(tool_run.streams)
       ELSE /\ info_kind' = "None"
            /\ info_counts' = info_counts
    /\ UNCHANGED <<non_probe_vars, probed_path, tool_run>>

\* No get_video_info call is modelled.
ProbeIdle ==
    /\ probed_path = "missing"
    /\ tool_run = [rc |-> "nonzero", stdout |-> "unparsable", streams |-> <<>>]
    /\ info_kind = "unset"
    /\ info_counts = NoCounts
    /\ probe_spawned = FALSE
    /\ gpc = "idle"

----------------------------------------------------------------------------
(* The worker pool of convert_directory over time *)

\* Largest number of candidates and largest pool of a timed batch.
MaxTimedFiles == 6
MaxTimedWorkers == 3

TimedJobs == 1..MaxTimedFiles

NumTimedRunning == Cardinality({j \in TimedJobs : sched_state[j] = "running"})

\* A pool that runs one call at a time: that of the mutant.
pool_capacity_serial(w) == 1

\* dav2mkv.py:637  ThreadPoolExecutor(max_workers=self.max_workers): the
\* number of calls the pool runs at once.
pool_capacity(w) == w

\* A queued call is waiting and a worker is free to take it.
worker_free ==
    /\ \E j \in TimedJobs : sched_state[j] = "queued"
    /\ NumTimedRunning < pool_capacity(sched_workers)

\* dav2mkv.py:637-658  a free worker takes the oldest queued call at once.
timed_worker_start(j) ==
    /\ sched_state[j] = "queued"
    /\ \A i \in 1..(j - 1) : sched_state[i] # "queued"
    /\ worker_free
    /\ sched_state' = [sched_state EXCEPT ![j] = "running"]
    /\ peak' = IF NumTimedRunning + 1 > peak THEN NumTimedRunning + 1 ELSE peak
    /\ UNCHANGED <<non_sched_vars, sched_files, sched_workers, clock>>

\* test_batch_converter.py:292-304  every call takes one interval: an
\* interval passes once no worker is left free, and the calls that were
\* running are over.
interval_passes ==
    /\ NumTimedRunning > 0
    /\ ~worker_free
    /\ sched_state' = [j \in TimedJobs |->
                          IF sched_state[j] = "running" THEN "done"
                          ELSE sched_state[j]]
    /\ clock' = clock + 1
    /\ UNCHANGED <<non_sched_vars, sched_files, sched_workers, peak>>

\* No timed batch is modelled.
SchedIdle ==
    /\ sched_files = 0
    /\ sched_workers = 1
    /\ sched_state = [j \in TimedJobs |-> "none"]
    /\ clock = 0
    /\ peak = 0

----------------------------------------------------------------------------
(* The arguments of a submitted call and the ffmpeg command built from them *)

\* Largest number of candidates whose commands are followed.
MaxCmdFiles == 3

CmdJobs == 1..MaxCmdFiles

\* A call that has not been submitted.
NoCall_args ==
    [at |-> "none", container |-> "none", overwrite |-> FALSE, cmd |-> <<>>]

\* An overwrite directive that does not look at the policy: that of the
\* mutant.
overwrite_directive_always(ow) == "-y"

\* dav2mkv.py:368-371  "-y" when overwrite is set, "-n" otherwise.
overwrite_directive(ow) == IF ow THEN "-y" ELSE "-n"

\* dav2mkv.py:354-373  the ffmpeg command line of one call.
ffmpeg_cmd(in_file, out_file, ow) ==
    <<"ffmpeg", "-i", in_file, "-c", "copy", "-map", "0",
      "-avoid_negative_ts", "make_zero", "-fflags", "+genpts">>
    \o <<overwrite_directive(ow)>>
    \o <<out_file>>

\* dav2mkv.py:651-657  executor.submit(self.converter.convert_video,
\* video_file, output_file, container, overwrite): the third and fourth
\* positional arguments are convert_video's container and overwrite
\* (284-290).
submit_call(j) ==
    /\ j <= given_files
    /\ call[j].at = "none"
    /\ \A i \in 1..(j - 1) : call[i].at # "none"
    /\ LET args == <<"video_file", "output_file", given_container,
                     given_overwrite>>
       IN  call' = [call EXCEPT ![j] = [at |-> "submitted",
                                        container |-> args[3],
                                        overwrite |-> args[4],
                                        cmd |-> <<>>]]
    /\ UNCHANGED <<non_command_vars, given_overwrite, given_container,
                   given_files>>

\* dav2mkv.py:321-373  the call of a worker: an unsupported container ends
\* it before any command is built; otherwise the command is built from the
\* call's own arguments.
build_cmd(j) ==
    /\ call[j].at = "submitted"
    /\ IF call[j].container \notin SupportedContainers
       THEN call' = [call EXCEPT ![j].at = "invalid"]
       ELSE call' = [call EXCEPT
                       ![j].at = "built",
                       ![j].cmd = ffmpeg_cmd("video_file", "output_file",
                                             call[j].overwrite)]
    /\ UNCHANGED <<non_command_vars, given_overwrite, given_container,
                   given_files>>

\* No command is followed.
CommandIdle ==
    /\ given_overwrite = FALSE
    /\ given_container = "mkv"
    /\ given_files = 0
    /\ call = [j \in CmdJobs |-> NoCall_args]

----------------------------------------------------------------------------
(* check_ffmpeg_availability *)

\* How a version check ends: the exit status, or the exception that
\* subprocess.run raises.
CheckRuns == {"zero", "nonzero", "not_found", "timeout", "error"}

\* First lines that 'ffmpeg -version' prints.
VersionLines == {"ffmpeg version 4.4.0", "ffmpeg version 6.1", ""}

\* dav2mkv.py:137-147  every handler returns (False, None).
Unavailable == [available |-> FALSE, version |-> "None"]

\* dav2mkv.py:112-121, 135-147  'ffmpeg -version' is run; exit status 0
\* leads on to the check of ffprobe, any other end to (False, None).
check_encoder ==
    /\ cpc = "call"
    /\ checks_run' = <<"ffmpeg">>
    /\ IF ffmpeg_run = "zero"
       THEN /\ cpc' = "ffprobe"
            /\ answer' = answer
       ELSE /\ cpc' = "done"
            /\ answer' = Unavailable
    /\ UNCHANGED <<non_toolcheck_vars, ffmpeg_run, ffprobe_run, version_line>>

\* Mutant of check_prober: the exit status of ffprobe is not looked at.
check_prober_ignored ==
    /\ cpc = "ffprobe"
    /\ checks_run' = Append(checks_run, "ffprobe")
    /\ cpc' = "done"
    /\ answer' = IF ffprobe_run \in {"zero", "nonzero"}
                 THEN [available |-> TRUE, version |-> version_line]
                 ELSE Unavailable
    /\ UNCHANGED <<non_toolcheck_vars, ffmpeg_run, ffprobe_run, version_line>>

\* dav2mkv.py:122-134, 137-147  'ffprobe -version' is run; exit status 0
\* gives (True, version_line), any other end (False, None).
check_prober ==
    /\ cpc = "ffprobe"
    /\ checks_run' = Append(checks_run, "ffprobe")
    /\ cpc' = "done"
    /\ answer' = IF ffprobe_run = "zero"
                 THEN [available |-> TRUE, version |-> version_line]
                 ELSE Unavailable
    /\ UNCHANGED <<non_toolcheck_vars, ffmpeg_run, ffprobe_run, version_line>>

\* No check_ffmpeg_availability call is modelled.
ToolCheckIdle ==
    /\ ffmpeg_run = "zero"
    /\ ffprobe_run = "zero"
    /\ version_line = ""
    /\ checks_run = <<>>
    /\ answer = [available |-> FALSE, version |-> "unset"]
    /\ cpc = "idle"

----------------------------------------------------------------------------
(* The output paths of the calls of one batch *)

\* dav2mkv.py:641-658  the next candidate's output path is derived and its
\* call submitted.  The input directory is /in.
submit_next ==
    /\ Len(batch_outputs) < Len(batch_files)
    /\ batch_outputs' =
         Append(batch_outputs,
                directory_output_file(batch_files[Len(batch_outputs) + 1],
                                      << <<105, 110>> >>, batch_output_dir,
                                      container))
    /\ UNCHANGED <<non_outputs_vars, batch_files,
                   batch_output_dir>>

\* No batch's output paths are followed.
OutputsIdle ==
    /\ batch_files = <<>>
    /\ batch_output_dir = <<>>
    /\ batch_outputs = <<>>

----------------------------------------------------------------------------
(* dav2mp4.py: the frame pipeline of convert_dav_to_mp4 *)

\* Largest number of frames of an input and largest chunk_size.
MaxFrames == 4
MaxChunk == 3

\* Frame i of the input is the number i; None is 0.
None == 0

\* dav2mp4.py:103-104  Queue(maxsize=chunk_size * 2)
maxsize == chunk_size * 2

\* A chunk handed back in reverse order: the processing of the mutant.
process_frame_chunk_reversed(chunk) ==
    [i \in 1..Len(chunk) |-> chunk[Len(chunk) + 1 - i]]

\* dav2mp4.py:20-22  [frame for frame in frames if frame is not None]
process_frame_chunk(chunk) == SelectSeq(chunk, LAMBDA frame : frame # None)

\* dav2mp4.py:27-36  frame_reader: one round of its loop.  cap.read()
\* delivers the next frame, which is put (the put waits while the queue is
\* full), or reports the end, and the sentinel is put.
frame_reader ==
    /\ rpc = "run"
    /\ Len(read_queue) < maxsize
    /\ IF frames_read < total_frames
       THEN /\ frames_read' = frames_read + 1
            /\ read_queue' = Append(read_queue, frames_read + 1)
            /\ rpc' = rpc
       ELSE /\ frames_read' = frames_read
            /\ read_queue' = Append(read_queue, None)
            /\ rpc' = "done"
    /\ UNCHANGED <<non_pipeline_vars, total_frames, chunk_size, frames,
                   processed_frames, kpc, write_queue, written, wpc>>

\* dav2mp4.py:38-45  frame_writer: one round of its loop; the get waits
\* while the queue is empty.
frame_writer ==
    /\ wpc = "run"
    /\ write_queue # <<>>
    /\ write_queue' = Tail(write_queue)
    /\ IF Head(write_queue) = None
       THEN /\ wpc' = "done"
            /\ written' = written
       ELSE /\ wpc' = wpc
            /\ written' = Append(written, Head(write_queue))
    /\ UNCHANGED <<non_pipeline_vars, total_frames, chunk_size, frames_read, rpc,
                   read_queue, frames, processed_frames, kpc>>

\* dav2mp4.py:119-124  one round of 'for _ in range(chunk_size)': the get
\* waits while the queue is empty; the sentinel leaves the for loop, and so
\* does the chunk_size-th frame.
collect_frame ==
    /\ kpc = "collect"
    /\ read_queue # <<>>
    /\ read_queue' = Tail(read_queue)
    /\ IF Head(read_queue) = None
       THEN /\ frames' = frames
            /\ kpc' = "process"
       ELSE /\ frames' = Append(frames, Head(read_queue))
            /\ kpc' = IF Len(frames) + 1 = chunk_size THEN "process"
                      ELSE kpc
    /\ UNCHANGED <<non_pipeline_vars, total_frames, chunk_size, frames_read, rpc,
                   processed_frames, write_queue, written, wpc>>

\* dav2mp4.py:126-130  an empty chunk leaves the while loop; any other is
\* processed (executor.submit(...).result() waits for it).
process_chunk ==
    /\ kpc = "process"
    /\ IF frames = <<>>
       THEN /\ kpc' = "signal"
            /\ processed_frames' = processed_frames
       ELSE /\ processed_frames' = process_frame_chunk(frames)
            /\ kpc' = "put"
    /\ frames' = <<>>
    /\ UNCHANGED <<non_pipeline_vars, total_frames, chunk_size, frames_read, rpc,
                   read_queue, write_queue, written, wpc>>

\* dav2mp4.py:133-134  one put of the processed chunk (it waits while the
\* queue is full); after the last the while loop starts over.
put_processed ==
    /\ kpc = "put"
    /\ IF processed_frames = <<>>
       THEN /\ kpc' = "collect"
            /\ UNCHANGED <<write_queue, processed_frames>>
       ELSE /\ Len(write_queue) < maxsize
            /\ write_queue' = Append(write_queue, Head(processed_frames))
            /\ processed_frames' = Tail(processed_frames)
            /\ kpc' = kpc
    /\ UNCHANGED <<non_pipeline_vars, total_frames, chunk_size, frames_read, rpc,
                   read_queue, frames, written, wpc>>

\* dav2mp4.py:137  write_queue.put(None)
signal_end ==
    /\ kpc = "signal"
    /\ Len(write_queue) < maxsize
    /\ write_queue' = Append(write_queue, None)
    /\ kpc' = "join"
    /\ UNCHANGED <<non_pipeline_vars, total_frames, chunk_size, frames_read, rpc,
                   read_queue, frames, processed_frames, written, wpc>>

\* dav2mp4.py:140-148  both threads are joined and True is returned.
join_and_return ==
    /\ kpc = "join"
    /\ rpc = "done"
    /\ wpc = "done"
    /\ kpc' = "returned_True"
    /\ UNCHANGED <<non_pipeline_vars, total_frames, chunk_size, frames_read, rpc,
                   read_queue, frames, processed_frames, write_queue, written,
                   wpc>>

\* The steps of the calling thread.
chunking_loop ==
    \/ collect_frame
    \/ process_chunk
    \/ put_processed
    \/ signal_end
    \/ join_and_return

\* No conversion by dav2mp4 is modelled.
PipelineIdle ==
    /\ total_frames = 0
    /\ chunk_size = 1
    /\ frames_read = 0
    /\ rpc = "idle"
    /\ read_queue = <<>>
    /\ frames = <<>>
    /\ processed_frames = <<>>
    /\ kpc = "idle"
    /\ write_queue = <<>>
    /\ written = <<>>
    /\ wpc = "idle"

UnitIdle == DiscoveryIdle /\ PathIdle /\ VerifyIdle /\ ReaderIdle /\ PoolIdle /\ ProbeIdle /\ SchedIdle /\ CommandIdle /\ ToolCheckIdle /\ DepthIdle /\ OutputsIdle /\ PipelineIdle

----------------------------------------------------------------------------

Init ==
    /\ mode \in {"file", "dir", "api"}
    /\ container \in Containers
    /\ mode # "api" => container \in SupportedContainers
    \* Both supported tokens take the same path through a batch (the token's
    \* text only shows in the output path, see PathSpec): one is drawn.
    /\ mode = "dir" => container = "mkv"
    /\ overwrite \in BOOLEAN
    /\ ffmpeg_available \in BOOLEAN
    /\ mode = "api" => ffmpeg_available
    /\ max_workers \in 1..MaxWorkers
    /\ mode # "dir" => max_workers = 1
    /\ nfiles \in 0..MaxFiles
    /\ mode = "file" => nfiles = 1
    /\ mode = "api" => nfiles >= 1
    /\ mpc = IF mode = "api" THEN "api" ELSE "check"
    /\ exit_code = -1
    /\ interrupted = FALSE
    /\ stats = InitStats
    /\ job = [j \in Jobs |-> IdleJob]
    /\ results = NoResults
    /\ completed = 0
    /\ progress = NoProgress
    /\ consumed = {}
    /\ UnitIdle

Next ==
    \/ \E j \in Jobs : job_step(j)
    \/ \E j \in Jobs : call_convert_video(j)
    \/ main_check
    \/ main_single_call
    \/ main_single_return
    \/ main_batch_return
    \/ convert_directory_begin
    \/ \E j \in Jobs : submit(j)
    \/ \E j \in Jobs : worker_start(j)
    \/ \E j \in Jobs : consume(j)
    \/ convert_directory_return
    \/ keyboard_interrupt
    \/ keyboard_interrupt_in_pool
    \/ shutdown_return

Spec == Init /\ [][Next]_vars

\* main() in directory mode, the tools being there.
BatchInit ==
    /\ Init
    /\ mode = "dir"
    /\ container = "mkv"
    /\ ffmpeg_available

BatchNext ==
    \/ \E j \in Jobs : job_step(j)
    \/ main_check
    \/ main_batch_return
    \/ convert_directory_begin
    \/ \E j \in Jobs : submit(j)
    \/ \E j \in Jobs : worker_start(j)
    \/ \E j \in Jobs : consume(j)
    \/ convert_directory_return
    \/ keyboard_interrupt
    \/ keyboard_interrupt_in_pool
    \/ shutdown_return

BatchSpec == BatchInit /\ [][BatchNext]_vars

\* main is not running and no convert_video call is issued.
DriverIdle ==
    /\ mode = "api"
    /\ overwrite = TRUE
    /\ ffmpeg_available = TRUE
    /\ max_workers = 1
    /\ nfiles = 1
    /\ mpc = "idle"
    /\ exit_code = -1
    /\ interrupted = FALSE
    /\ stats = InitStats
    /\ job = [j \in Jobs |-> IdleJob]
    /\ results = NoResults
    /\ completed = 0
    /\ progress = NoProgress
    /\ consumed = {}

\* find_video_files called, twice, on a directory.
DiscoveryInit ==
    /\ DriverIdle
    /\ container = "mkv"
    /\ PathIdle
    /\ VerifyIdle
    /\ ReaderIdle
    /\ PipelineIdle
    /\ OutputsIdle
    /\ DepthIdle
    /\ ToolCheckIdle
    /\ CommandIdle
    /\ SchedIdle
    /\ ProbeIdle
    /\ PoolIdle
    /\ directory \in {"missing", "file", "dir", "unreachable"}
    /\ recursive \in BOOLEAN
    /\ tree \in Trees
    /\ directory # "dir" => tree = {}
    /\ seen = {}
    /\ video_files = <<>>
    /\ fpc = "call"
    /\ found = <<>>
    /\ previous = NoCall

DiscoveryNext ==
    \/ find_video_files_begin
    \/ iterate
    \/ iterate_error
    \/ find_video_files_return
    \/ find_video_files_again

DiscoverySpec == DiscoveryInit /\ [][DiscoveryNext]_vars

\* The directories of the runs: /in, /out and /in/out.
InDir == << <<105, 110>> >>
OutDirs == {<< <<111, 117, 116>> >>, << <<105, 110>>, <<111, 117, 116>> >>}

\* Files below /in: those of the trees, and a/b.dav.
InputFiles ==
    {InDir \o e.path : e \in {x \in ProbeEntries \cup OtherEntries : x.is_file}}
    \cup {InDir \o << <<97>>, <<98, 46, 100, 97, 118>> >>}

\* One output path derived, by convert_video for a file of any name or by
\* convert_directory for a candidate.
PathInit ==
    /\ DriverIdle
    /\ DiscoveryIdle
    /\ VerifyIdle
    /\ ReaderIdle
    /\ PipelineIdle
    /\ OutputsIdle
    /\ DepthIdle
    /\ ToolCheckIdle
    /\ CommandIdle
    /\ SchedIdle
    /\ ProbeIdle
    /\ PoolIdle
    /\ caller \in {"convert_video", "convert_directory"}
    /\ container \in Containers
    /\ caller = "convert_video" => container \in SupportedContainers
    /\ input_path = IF caller = "convert_directory" THEN InDir ELSE <<>>
    /\ video_file \in InputFiles
    /\ caller = "convert_directory" =>
          is_video_file(File(relative_to(video_file, InDir)))
    /\ output \in {<<>>} \cup OutDirs
                \cup (IF caller = "convert_directory" THEN {InDir}
                      ELSE {<< <<111, 46, 109, 112, 52>> >>})
    /\ output_file = <<>>
    /\ ppc = "call"

PathNext ==
    \/ convert_video_output
    \/ convert_directory_output

PathSpec == PathInit /\ [][PathNext]_vars

\* _verify_output_file called on an output that is absent or has a size,
\* and an input that cannot be examined or has a size.
VerifyInit ==
    /\ DriverIdle
    /\ container = "mkv"
    /\ DiscoveryIdle
    /\ PathIdle
    /\ ReaderIdle
    /\ PipelineIdle
    /\ OutputsIdle
    /\ DepthIdle
    /\ ToolCheckIdle
    /\ CommandIdle
    /\ SchedIdle
    /\ ProbeIdle
    /\ PoolIdle
    /\ output_exists \in BOOLEAN
    /\ output_bytes \in 0..MaxSize
    /\ ~output_exists => output_bytes = 0
    /\ input_readable \in BOOLEAN
    /\ input_bytes \in 0..MaxSize
    /\ ~input_readable => input_bytes = 0
    /\ verdict = "none"
    /\ warned = FALSE

VerifyNext == verify_call

VerifySpec == VerifyInit /\ [][VerifyNext]_vars

\* BatchConverter constructed on a machine with some CPUs, with no
\* max_workers argument or with an integer, negative ones included.
PoolInit ==
    /\ DriverIdle
    /\ container = "mkv"
    /\ DiscoveryIdle
    /\ PathIdle
    /\ VerifyIdle
    /\ ReaderIdle
    /\ PipelineIdle
    /\ OutputsIdle
    /\ DepthIdle
    /\ ToolCheckIdle
    /\ CommandIdle
    /\ SchedIdle
    /\ ProbeIdle
    /\ cpu_count \in 1..MaxCpus
    /\ workers_given \in BOOLEAN
    /\ workers_arg \in -MaxCpus..MaxCpus
    /\ ~workers_given => workers_arg = 0
    /\ pool_size = 0
    /\ constructed = FALSE

PoolNext == batch_converter_init

PoolSpec == PoolInit /\ [][PoolNext]_vars

\* get_video_info called on a path, with ffprobe ending in some way.
ProbeInit ==
    /\ DriverIdle
    /\ container = "mkv"
    /\ DiscoveryIdle
    /\ PathIdle
    /\ VerifyIdle
    /\ ReaderIdle
    /\ PipelineIdle
    /\ OutputsIdle
    /\ DepthIdle
    /\ ToolCheckIdle
    /\ CommandIdle
    /\ SchedIdle
    /\ PoolIdle
    /\ probed_path \in {"missing", "dir", "file", "unreachable"}
    /\ tool_run \in ToolRuns
    /\ info_kind = "unset"
    /\ info_counts = NoCounts
    /\ probe_spawned = FALSE
    /\ gpc = "call"

ProbeNext ==
    \/ get_video_info_check
    \/ get_video_info_run

ProbeSpec == ProbeInit /\ [][ProbeNext]_vars

\* A batch whose candidates have all been submitted, on a pool of some
\* size; every call takes one interval.
SchedInit ==
    /\ DriverIdle
    /\ container = "mkv"
    /\ DiscoveryIdle
    /\ PathIdle
    /\ VerifyIdle
    /\ ReaderIdle
    /\ PipelineIdle
    /\ OutputsIdle
    /\ DepthIdle
    /\ ToolCheckIdle
    /\ CommandIdle
    /\ PoolIdle
    /\ ProbeIdle
    /\ sched_files \in 0..MaxTimedFiles
    /\ sched_workers \in 1..MaxTimedWorkers
    /\ sched_state = [j \in TimedJobs |->
                         IF j <= sched_files THEN "queued" ELSE "none"]
    /\ clock = 0
    /\ peak = 0

SchedNext ==
    \/ \E j \in TimedJobs : timed_worker_start(j)
    \/ interval_passes

SchedSpec == SchedInit /\ [][SchedNext]_vars

\* convert_directory called with some overwrite policy and container token
\* on a directory with some candidates.
CommandInit ==
    /\ DriverIdle
    /\ container = "mkv"
    /\ DiscoveryIdle
    /\ PathIdle
    /\ VerifyIdle
    /\ ReaderIdle
    /\ PipelineIdle
    /\ OutputsIdle
    /\ DepthIdle
    /\ ToolCheckIdle
    /\ PoolIdle
    /\ ProbeIdle
    /\ SchedIdle
    /\ given_overwrite \in BOOLEAN
    /\ given_container \in Containers
    /\ given_files \in 1..MaxCmdFiles
    /\ call = [j \in CmdJobs |-> NoCall_args]

CommandNext ==
    \/ \E j \in CmdJobs : submit_call(j)
    \/ \E j \in CmdJobs : build_cmd(j)

CommandSpec == CommandInit /\ [][CommandNext]_vars

\* check_ffmpeg_availability called on a machine where the two version
\* checks end in some way.
ToolCheckInit ==
    /\ DriverIdle
    /\ container = "mkv"
    /\ DiscoveryIdle
    /\ PathIdle
    /\ VerifyIdle
    /\ ReaderIdle
    /\ PipelineIdle
    /\ OutputsIdle
    /\ DepthIdle
    /\ PoolIdle
    /\ ProbeIdle
    /\ SchedIdle
    /\ CommandIdle
    /\ ffmpeg_run \in CheckRuns
    /\ ffprobe_run \in CheckRuns
    /\ version_line \in VersionLines
    /\ checks_run = <<>>
    /\ answer = [available |-> FALSE, version |-> "unset"]
    /\ cpc = "call"

ToolCheckNext ==
    \/ check_encoder
    \/ check_prober

ToolCheckSpec == ToolCheckInit /\ [][ToolCheckNext]_vars

\* find_video_files called without recursion and then with it, on the same
\* directory.
DepthInit ==
    /\ DiscoveryInit
    /\ ~recursive

DepthNext ==
    \/ find_video_files_begin
    \/ iterate
    \/ iterate_error
    \/ find_video_files_return
    \/ find_video_files_recursively

DepthSpec == DepthInit /\ [][DepthNext]_vars

\* Largest number of candidates of a batch whose output paths are followed.
MaxBatchFiles == 2

\* Candidates below /in: a.dav, a.avi, B.MKV, p.mkv, p.mp4, g.tar.ts,
\* sub/e.mp4 and sub/a.dav.
BatchCandidates ==
    {InDir \o q : q \in
        {<< <<97, 46, 100, 97, 118>> >>,
         << <<97, 46, 97, 118, 105>> >>,
         << <<66, 46, 77, 75, 86>> >>,
         << <<112, 46, 109, 107, 118>> >>,
         << <<112, 46, 109, 112, 52>> >>,
         << <<103, 46, 116, 97, 114, 46, 116, 115>> >>,
         << <<115, 117, 98>>, <<101, 46, 109, 112, 52>> >>,
         << <<115, 117, 98>>, <<97, 46, 100, 97, 118>> >>}}

\* convert_directory on /in, whose candidates find_video_files returned in
\* ascending order, with or without an output directory.
OutputsInit ==
    /\ DriverIdle
    /\ DiscoveryIdle
    /\ PathIdle
    /\ VerifyIdle
    /\ ReaderIdle
    /\ PipelineIdle
    /\ PoolIdle
    /\ ProbeIdle
    /\ SchedIdle
    /\ CommandIdle
    /\ ToolCheckIdle
    /\ DepthIdle
    /\ container \in Containers
    /\ batch_files \in UNION {[1..n -> BatchCandidates] : n \in 1..MaxBatchFiles}
    /\ \A i \in 1..Len(batch_files) :
          is_video_file(File(relative_to(batch_files[i], InDir)))
    /\ \A i \in 1..(Len(batch_files) - 1) :
          path_lt(batch_files[i], batch_files[i + 1])
    /\ batch_output_dir \in {<<>>, InDir} \cup OutDirs
    /\ batch_outputs = <<>>

OutputsNext == submit_next

OutputsSpec == OutputsInit /\ [][OutputsNext]_vars

\* convert_dav_to_mp4 past the start of its two threads (dav2mp4.py:110-111),
\* on an input of some number of frames with some chunk_size.
PipelineInit ==
    /\ DriverIdle
    /\ container = "mkv"
    /\ DiscoveryIdle
    /\ PathIdle
    /\ VerifyIdle
    /\ ReaderIdle
    /\ PoolIdle
    /\ ProbeIdle
    /\ SchedIdle
    /\ CommandIdle
    /\ ToolCheckIdle
    /\ DepthIdle
    /\ OutputsIdle
    /\ total_frames \in 0..MaxFrames
    /\ chunk_size \in 1..MaxChunk
    /\ frames_read = 0
    /\ rpc = "run"
    /\ read_queue = <<>>
    /\ frames = <<>>
    /\ processed_frames = <<>>
    /\ kpc = "collect"
    /\ write_queue = <<>>
    /\ written = <<>>
    /\ wpc = "run"

PipelineNext ==
    \/ frame_reader
    \/ frame_writer
    \/ chunking_loop

PipelineSpec == PipelineInit /\ [][PipelineNext]_vars

\* The three threads are scheduled fairly: a thread that can take a step
\* takes one in the end.
PipelineLiveSpec ==
    /\ PipelineSpec
    /\ WF_vars(frame_reader)
    /\ WF_vars(frame_writer)
    /\ WF_vars(chunking_loop)

\* A library caller that issues one convert_video call from a thread of
\* its own and, at any time, reads the statistics and writes into what it
\* got.
ReaderInit ==
    /\ Init
    /\ mode = "api"
    /\ nfiles = 1

ReaderNext ==
    \/ \E j \in Jobs : job_step(j)
    \/ \E j \in Jobs : call_convert_video(j)
    \/ get_stats
    \/ mutate_returned

ReaderSpec == ReaderInit /\ [][ReaderNext]_vars

----------------------------------------------------------------------------
(* Claims *)

\* Every call issued so far has returned (none is running, none raised).
AllCallsReturned ==
    /\ \A j \in Jobs : job[j].pc \in {"idle", "returned"}
    /\ \E j \in Jobs : job[j].pc = "returned"

\* C1: once every convert_video call issued on the converter has returned,
\* conversions_attempted = conversions_successful + conversions_failed.
C1_StatsConservation ==
    AllCallsReturned =>
        stats.conversions_attempted
            = stats.conversions_successful + stats.conversions_failed

\* C2: a call that returned False added exactly 1 to conversions_failed and
\* nothing to conversions_successful; a call that returned True added
\* exactly 1 to conversions_successful and nothing to conversions_failed.
C2_OutcomeRecordedOnce ==
    \A j \in Jobs :
        job[j].pc = "returned" =>
            /\ job[j].result = "False" =>
                   job[j].d_failed = 1 /\ job[j].d_successful = 0
            /\ job[j].result = "True" =>
                   job[j].d_successful = 1 /\ job[j].d_failed = 0

\* C3: the dictionary convert_directory returns has
\* total = successful + failed, and total is the number of candidates.
C3_BatchConservation ==
    mpc = "map_exit" =>
        /\ results.total = results.successful + results.failed
        /\ results.total = nfiles

\* C3 witness: a batch returned in which one call raised and another
\* returned True.
C3_Witness ==
    /\ mpc = "map_exit"
    /\ \E j \in Jobs : job[j].result = "raise"
    /\ \E j \in Jobs : job[j].result = "True"

\* The failure categories of C4 that end a call.
FailureCategories ==
    {"input_missing", "input_not_file", "unsupported_container",
     "mkdir_error", "engine_nonzero", "engine_timeout",
     "verification_failed"}

\* C4: whichever failure category ends a call, the call returns False and
\* raises nothing; a call that raised did so before its try block, with no
\* probe made (so no probe failure escapes either).
C4_NoFaultEscapes ==
    \A j \in Jobs :
        /\ job[j].ended \in FailureCategories =>
               job[j].pc = "returned" /\ job[j].result = "False"
        /\ job[j].pc = "raised" =>
               /\ job[j].ended = "fault"
               /\ job[j].video_info = "unset"
               /\ job[j].spawned = {}

\* C4 witness: one call, ended by an engine timeout, has handed back False
\* while another goes on to the engine after a failed probe.
C4_Witness ==
    \E j, k \in Jobs :
        /\ job[j].ended = "engine_timeout"
        /\ job[j].pc = "returned"
        /\ job[j].result = "False"
        /\ job[k].pc = "engine"
        /\ job[k].video_info = "None"

\* C5: with overwrite disabled, a call that found its output existing has
\* returned False without spawning any process, and the output of a
\* rejected call is still the old file.
C5_OverwritePolicy ==
    \A j \in Jobs :
        ~overwrite =>
            /\ job[j].out_file = "old" =>
                   /\ job[j].pc = "returned"
                   /\ job[j].result = "False"
                   /\ job[j].spawned = {}
            /\ job[j].ended = "overwrite_rejected" => job[j].out_file = "old"

\* C5 witness: a call rejected by the overwrite policy.
C5_Witness ==
    \E j \in Jobs :
        /\ ~overwrite
        /\ job[j].ended = "overwrite_rejected"
        /\ job[j].out_file = "old"
        /\ job[j].pc = "returned"

\* C6: a call returns True exactly when the engine was invoked, exited
\* with status 0 and verification passed; a non-zero exit returns False
\* with no verification run.
C6_TrueIffEngineOkAndVerified ==
    \A j \in Jobs :
        job[j].pc = "returned" =>
            /\ job[j].result = "True" <=>
                   /\ "ffmpeg" \in job[j].spawned
                   /\ job[j].engine_rc = "zero"
                   /\ job[j].verified = "pass"
            /\ job[j].engine_rc = "nonzero" =>
                   job[j].result = "False" /\ job[j].verified = "none"

\* C6 witness: a zero exit followed by a failed verification returned False.
C6_Witness ==
    \E j \in Jobs :
        /\ job[j].pc = "returned"
        /\ job[j].engine_rc = "zero"
        /\ job[j].verified = "fail"
        /\ job[j].result = "False"

\* C7: the exit code of a run of main that was neither interrupted nor
\* missing its tools: single-file 0 for True and 1 for False; directory 0
\* with no failure, 2 with a success and a failure, 1 with failures only.
C7_ExitCodeMapping ==
    (mpc = "exit" /\ ~interrupted /\ ffmpeg_available) =>
        /\ exit_code \in {0, 1, 2}
        /\ (mode = "file" /\ job[1].result = "True") => exit_code = 0
        /\ (mode = "file" /\ job[1].result = "False") => exit_code = 1
        /\ (mode = "dir" /\ results.failed = 0) => exit_code = 0
        /\ (mode = "dir" /\ results.successful >= 1 /\ results.failed >= 1)
               => exit_code = 2
        /\ (mode = "dir" /\ results.successful = 0 /\ results.failed >= 1)
               => exit_code = 1

\* C7 witness: a directory run ended with partial success.
C7_Witness ==
    /\ mpc = "exit"
    /\ mode = "dir"
    /\ ~interrupted
    /\ results.successful >= 1
    /\ results.failed >= 1
    /\ exit_code = 2

\* C8: when the tool check fails no call is ever started, in either mode,
\* and main returns 127.
C8_ToolsMissing ==
    ~ffmpeg_available =>
        /\ \A j \in Jobs : job[j].pc = "idle"
        /\ stats = InitStats
        /\ mpc \in {"check", "exit"}
        /\ (mpc = "exit" /\ ~interrupted) => exit_code = 127

\* C8 witness: a directory run ended with 127.
C8_Witness ==
    /\ ~ffmpeg_available
    /\ mode = "dir"
    /\ nfiles >= 1
    /\ mpc = "exit"
    /\ exit_code = 127

\* C9: after the interrupt of a directory run no call that had not started
\* is started, calls in flight finish, and main returns 130.
C9_InterruptStopsDispatch ==
    /\ [][(mode = "dir" /\ interrupted) =>
            \A j \in Jobs :
                job[j].pc \in {"idle", "queued"} => job'[j].pc = job[j].pc]_vars
    /\ []((mode = "dir" /\ interrupted /\ mpc = "exit") =>
            /\ exit_code = 130
            /\ \A j \in Jobs : ~Running(j))

\* C10: in a directory run at most max_workers calls execute at any moment.
C10_BoundedConcurrency ==
    mode = "dir" => NumRunning <= max_workers

\* C10 witness: the pool is full and a submitted call waits in the queue.
C10_Witness ==
    /\ mode = "dir"
    /\ NumRunning = max_workers
    /\ \E j \in Jobs : job[j].pc = "queued"

\* The candidates of the run.
Candidates == 1..nfiles

\* C11: when convert_directory returns, no call is running or queued, every
\* candidate's call has finished and its future has been yielded and counted.
C11_ReturnsAfterAllJobs ==
    (mode = "dir" /\ mpc = "map_exit") =>
        /\ \A j \in Jobs : job[j].pc # "queued" /\ ~Running(j)
        /\ \A j \in Candidates : Finished(j) /\ j \in consumed
        /\ completed = nfiles
        /\ results.successful + results.failed = completed

\* C11 witness: a batch of two candidates on a pool of one worker returned.
C11_Witness ==
    /\ mode = "dir"
    /\ mpc = "map_exit"
    /\ nfiles = 2
    /\ max_workers = 1
    /\ \A j \in Candidates : Finished(j)

\* C12: each yielded future counts once: a call that raised counts as one
\* failure and as no success, the consumption goes on (convert_directory
\* does not raise), and an uninterrupted run ends with every candidate
\* consumed.
C12_FaultCountedAsOneFailure ==
    mode = "dir" =>
        /\ results.failed
             = Cardinality({j \in consumed : job[j].result \in {"False", "raise"}})
        /\ results.successful
             = Cardinality({j \in consumed : job[j].result = "True"})
        /\ (mpc = "exit" /\ ~interrupted /\ ffmpeg_available) =>
               consumed = Candidates

\* C12 witness: the first call raised and was consumed, the second returned
\* True and was consumed after it, and the batch returned.
C12_Witness ==
    /\ mode = "dir"
    /\ mpc = "map_exit"
    /\ nfiles = 2
    /\ job[1].result = "raise"
    /\ job[2].result = "True"
    /\ results = [total |-> 2, successful |-> 1, failed |-> 1]

\* C13: in a directory run every call is attempted at most once, a running
\* call can always take its next step, a queued call can be started as soon
\* as no call is running (whatever became of its siblings: nothing cancels
\* it), and at the return every candidate's call has run to its end.
C13_EveryCandidateConvertedOnce ==
    mode = "dir" =>
        /\ \A j \in Jobs : job[j].d_attempted <= 1
        /\ \A j \in Jobs : Running(j) => ENABLED job_step(j)
        /\ ((\E j \in Jobs : job[j].pc = "queued") /\ NumRunning = 0) =>
               \E j \in Jobs : ENABLED worker_start(j)
        /\ mpc = "map_exit" =>
               \A j \in Candidates :
                   /\ job[j].pc \in {"returned", "raised"}
                   /\ job[j].result \in {"True", "False", "raise"}

\* C13 witness: on a pool of one worker the first call timed out and the
\* second, started after it, was converted.
C13_Witness ==
    /\ mode = "dir"
    /\ max_workers = 1
    /\ job[1].ended = "engine_timeout"
    /\ job[2].ended = "converted"
    /\ job[2].result = "True"

----------------------------------------------------------------------------
(* Claims on find_video_files, under DiscoverySpec *)

\* The file name ends in the extension ext, in any letter case, after a
\* stem that is not empty.
HasExtension(file_name, ext) ==
    /\ Len(file_name) > Len(ext)
    /\ \A i \in 1..Len(ext) :
         LET c == file_name[Len(file_name) - Len(ext) + i]
         IN  c = ext[i] \/ (c \in 65..90 /\ c + 32 = ext[i])

Listed(lst, path) == \E i \in 1..Len(lst) : lst[i] = path

\* C14: find_video_files returns a path if and only if it is a regular file
\* in the searched scope (the directory itself, or all of its subtree when
\* recursive) whose extension is, in any letter case, one of the 16
\* allow-listed extensions; it returns nothing else.
C14_ExtensionFilter ==
    fpc = "returned" =>
        /\ \A e \in tree :
             Listed(found, e.path) <=>
                 /\ e.is_file
                 /\ recursive \/ Len(e.path) = 1
                 /\ \E ext \in video_extensions :
                      HasExtension(name(e.path), ext)
        /\ \A i \in 1..Len(found) : \E e \in tree : e.path = found[i]

\* A scan that returned B.MKV and left out h.txt.
C14_Witness ==
    /\ fpc = "returned"
    /\ File(<< <<104, 46, 116, 120, 116>> >>) \in tree
    /\ found = << << <<66, 46, 77, 75, 86>> >> >>

\* C15: the list find_video_files returns is in strictly ascending path
\* order whatever the order in which the entries were enumerated, and a
\* second call over the unchanged tree returns the same list.
C15_DeterministicOrder ==
    fpc = "returned" =>
        /\ \A i, k \in 1..Len(found) : i < k => path_lt(found[i], found[k])
        /\ previous.pc = "returned" => found = previous.found

\* Two calls returned the same list of at least two paths, the second
\* having met them in another order than the sorted one.
C15_Witness ==
    /\ fpc = "returned"
    /\ previous.pc = "returned"
    /\ Len(found) >= 2
    /\ video_files # found
    /\ found = previous.found

\* C16: when the directory does not exist, is not a directory, or the
\* enumeration raises, find_video_files returns the empty list and raises
\* nothing, whatever it had collected.
C16_FailSoft ==
    /\ (directory \in {"missing", "file"} /\ fpc # "call") =>
           fpc = "returned_empty"
    /\ fpc = "returned_empty" => found = <<>>
    /\ directory \in {"missing", "file", "dir"} => fpc # "raised"

\* The enumeration failed after a candidate had been collected.
C16_Witness ==
    /\ fpc = "returned_empty"
    /\ directory = "dir"
    /\ video_files # <<>>
    /\ found = <<>>

\* The entry is a regular file whose name has an allow-listed extension.
AllowListed(e) ==
    /\ e.is_file
    /\ \E ext \in video_extensions : HasExtension(name(e.path), ext)

\* C34 (under DepthSpec): a non-recursive call returns allow-listed files
\* that are direct children of the directory, and all of those; a recursive
\* call returns every allow-listed file at any depth below it; and what the
\* non-recursive call returned is all in what the recursive call on the
\* same directory returns.
C34_DepthOfDiscovery ==
    fpc = "returned" =>
        /\ ~recursive =>
               /\ \A i \in 1..Len(found) :
                      /\ Len(found[i]) = 1
                      /\ AllowListed(File(found[i]))
                      /\ File(found[i]) \in tree
               /\ \A e \in tree :
                      (AllowListed(e) /\ Len(e.path) = 1) => Listed(found, e.path)
        /\ recursive =>
               /\ \A e \in tree : AllowListed(e) => Listed(found, e.path)
               /\ flat.pc = "returned" =>
                      \A i \in 1..Len(flat.found) : Listed(found, flat.found[i])

\* The non-recursive call returned the one candidate at the top, the
\* recursive call that one and one from a subdirectory.
C34_Witness ==
    /\ fpc = "returned"
    /\ recursive
    /\ flat.pc = "returned"
    /\ Len(flat.found) = 1
    /\ Len(found) = 2
    /\ \E i \in 1..Len(found) : Len(found[i]) = 2

----------------------------------------------------------------------------
(* Claims on the output path, under PathSpec *)

\* The name has no extension: it has no dot, or its last dot is its first
\* or its last character.
NoExtension(n) ==
    \A k \in 2..(Len(n) - 1) :
        n[k] = 46 => \E m \in (k + 1)..Len(n) : n[m] = 46

\* out_name is in_name with its extension (what follows its last dot)
\* replaced by the token, or with the token added when it has none.
ExtensionReplaced(in_name, out_name, tok) ==
    \E k \in 1..Len(in_name) :
        /\ out_name = SubSeq(in_name, 1, k) \o <<46>> \o tok
        /\ \/ k = Len(in_name) /\ NoExtension(in_name)
           \/ /\ k + 1 < Len(in_name)
              /\ in_name[k + 1] = 46
              /\ \A m \in (k + 2)..Len(in_name) : in_name[m] # 46

\* The two paths name entries of one directory.
SameDir(p, q) ==
    /\ Len(p) = Len(q)
    /\ \A i \in 1..(Len(p) - 1) : p[i] = q[i]

\* C17: with no explicit output, convert_video's output is the input path
\* with its extension replaced by the container token; in a batch whose
\* output directory differs from the input directory a candidate's output
\* is the output directory joined with the candidate's path relative to the
\* input directory, extension replaced; with no output directory (or the
\* input directory as output directory) the output sits alongside the input.
C17_OutputPathDerivation ==
    ppc = "derived" =>
        LET tok == container_token(container)
            replaced == ExtensionReplaced(name(video_file), name(output_file),
                                          tok)
            below == Len(video_file) - Len(input_path)
        IN  /\ (caller = "convert_video" /\ output = <<>>) =>
                   SameDir(video_file, output_file) /\ replaced
            /\ (caller = "convert_video" /\ output # <<>>) =>
                   output_file = output
            /\ (caller = "convert_directory" /\ output \in {<<>>, input_path}) =>
                   SameDir(video_file, output_file) /\ replaced
            /\ (caller = "convert_directory"
                    /\ output \notin {<<>>, input_path}) =>
                   /\ Len(output_file) = Len(output) + below
                   /\ \A i \in 1..Len(output) : output_file[i] = output[i]
                   /\ \A i \in 1..(below - 1) :
                        output_file[Len(output) + i]
                            = video_file[Len(input_path) + i]
                   /\ replaced

\* /in/a/b.dav converted to mkv with output directory /out: /out/a/b.mkv.
C17_Witness ==
    /\ ppc = "derived"
    /\ caller = "convert_directory"
    /\ container = "mkv"
    /\ input_path = << <<105, 110>> >>
    /\ output = << <<111, 117, 116>> >>
    /\ video_file = << <<105, 110>>, <<97>>, <<98, 46, 100, 97, 118>> >>
    /\ output_file = << <<111, 117, 116>>, <<97>>, <<98, 46, 109, 107, 118>> >>

----------------------------------------------------------------------------
(* Claims on _verify_output_file, under VerifySpec *)

\* C18 as stated: verification passes if and only if the output exists and
\* its size is greater than zero.
C18_PassIffPresentAndNonEmpty ==
    verdict # "none" =>
        (verdict = "True" <=> (output_exists /\ output_bytes > 0))

\* C18 amended: verification passes if and only if the output exists, its
\* size is greater than zero and the input's size can be read; given those,
\* the relation between the two sizes never changes the answer.
C18_PassIffPresentNonEmptyAndInputReadable ==
    verdict # "none" =>
        (verdict = "True" <=> (output_exists /\ output_bytes > 0 /\ input_readable))

\* An output of twice the input's size passed, with the warning.
C18_Witness ==
    /\ verdict = "True"
    /\ warned
    /\ output_bytes = 2 * input_bytes
    /\ input_bytes > 0

\* C27: for an output that exists and is not empty, and an input whose size
\* was read, the size warning is logged exactly when output size / input
\* size is below 4/5 or above 6/5, an empty input counting as ratio 0: a
\* ratio of 0.95 gives none, a ratio of 2 gives one, an empty input gives
\* one.  The answer is True whether or not the warning was logged, and a
\* call that logged it answered True.
C27_SizeRatioWarning ==
    verdict # "none" =>
        /\ (output_exists /\ output_bytes > 0 /\ input_readable) =>
               /\ warned <=> \/ input_bytes = 0
                             \/ 5 * output_bytes < 4 * input_bytes
                             \/ 5 * output_bytes > 6 * input_bytes
               /\ (input_bytes > 0 /\ 100 * output_bytes = 95 * input_bytes)
                      => ~warned
               /\ output_bytes = 2 * input_bytes => warned
               /\ verdict = "True"
        /\ warned => verdict = "True"

\* An output of 0.95 times the input's size passed without the warning.
C27_Witness ==
    /\ verdict = "True"
    /\ ~warned
    /\ output_bytes = 19
    /\ input_bytes = 20

----------------------------------------------------------------------------
(* Claims on get_stats, under ReaderSpec *)

\* C19: get_stats returns a point-in-time copy.  In every step: the
\* tracker's counters change only in a step of a convert_video call (so
\* never by a write into a returned dictionary); a get_stats call returns
\* the counters as they are and leaves them alone; and a step of a
\* convert_video call leaves the dictionary the caller holds as it was.
C19_GetStatsReturnsCopy ==
    [][/\ stats' # stats => \E j \in Jobs : job'[j] # job[j]
       /\ reads' # reads =>
              /\ returned' # "none"
              /\ ReturnedStats' = stats
              /\ stats' = stats
       /\ (returned # "none" /\ \E j \in Jobs : job'[j] # job[j]) =>
              ReturnedStats' = ReturnedStats]_vars

\* The caller wrote 999 into the first dictionary it got; a second
\* get_stats, after a convert_video call, returned the tracker's counters.
C19_Witness ==
    /\ mutated
    /\ reads = 2
    /\ returned = "copy"
    /\ snapshot = stats
    /\ stats.conversions_attempted = 1

----------------------------------------------------------------------------
(* Claims on concurrent convert_video calls, under Spec *)

\* C20: once the N convert_video calls a library caller issued from N
\* threads have all returned, whatever their interleaving,
\* conversions_attempted is N and conversions_successful is the number of
\* calls that returned True.
C20_NoLostUpdates ==
    (mode = "api" /\ \A j \in 1..nfiles : job[j].pc = "returned") =>
        /\ stats.conversions_attempted = nfiles
        /\ stats.conversions_successful
               = Cardinality({j \in 1..nfiles : job[j].result = "True"})

\* Both calls of a caller have returned, the first False after an engine
\* timeout, the second True.
C20_Witness ==
    /\ mode = "api"
    /\ nfiles = 2
    /\ job[1].pc = "returned" /\ job[1].result = "False"
    /\ job[2].pc = "returned" /\ job[2].result = "True"
    /\ job[1].ended = "engine_timeout"
    /\ stats.conversions_attempted = 2
    /\ stats.conversions_successful = 1

----------------------------------------------------------------------------
(* Claims on the worker-pool size, under PoolSpec *)

\* C21: a BatchConverter built without max_workers has
\* max(1, CPU count - 1) workers; built with a positive max_workers it has
\* exactly that many.
C21_WorkerDefault ==
    constructed =>
        /\ ~workers_given =>
               /\ pool_size >= 1
               /\ pool_size >= cpu_count - 1
               /\ pool_size = 1 \/ pool_size = cpu_count - 1
        /\ (workers_given /\ workers_arg > 0) => pool_size = workers_arg

\* Built without max_workers on a machine with 4 CPUs: 3 workers.
C21_Witness ==
    /\ constructed
    /\ ~workers_given
    /\ cpu_count = 4
    /\ pool_size = 3

----------------------------------------------------------------------------
(* Claims on get_video_info, under ProbeSpec *)

\* C22: for a path that is missing, a directory or a file, get_video_info
\* never raises; it returns None without spawning ffprobe when the path is
\* missing or no regular file; it returns None when ffprobe times out,
\* exits non-zero or prints what cannot be parsed; and it returns a
\* VideoInfo only when ffprobe exited 0 with output that parsed.
C22_ProbeNeverRaises ==
    gpc = "done" =>
        /\ probed_path \in {"missing", "dir", "file"} => info_kind # "raise"
        /\ probed_path \in {"missing", "dir"} =>
               info_kind = "None" /\ ~probe_spawned
        /\ (probed_path = "file"
              /\ (tool_run.rc \in {"timeout", "nonzero"}
                    \/ tool_run.stdout = "unparsable")) =>
               info_kind = "None"
        /\ info_kind = "VideoInfo" =>
               /\ probed_path = "file"
               /\ tool_run.rc = "zero"
               /\ tool_run.stdout = "object"

\* ffprobe timed out on a regular file: None came back.
C22_Witness ==
    /\ gpc = "done"
    /\ probed_path = "file"
    /\ tool_run.rc = "timeout"
    /\ probe_spawned
    /\ info_kind = "None"

----------------------------------------------------------------------------
(* Claims on the directory run and on one job, C23..C30 *)

C24_ProbeFailureNonFatal ==
    [][\A j \in Jobs :
          /\ (job[j].pc = "probe" /\ job'[j] # job[j]) =>
                 /\ job'[j].pc \in {"mkdir", "aborted"}
                 /\ job'[j].result = "none"
          /\ (job[j].video_info = "None" /\ job'[j] # job[j]
                /\ job'[j].pc # "aborted") =>
                 /\ job[j].pc = "mkdir" =>
                        \/ job'[j].pc = "engine" /\ job'[j].dir_made
                        \/ job'[j].ended = "mkdir_error"
                 /\ job[j].pc = "engine" =>
                        \/ "ffmpeg" \in job'[j].spawned
                        \/ job'[j].ended = "engine_launch_error"
                 /\ job'[j].pc \in FinishedPcs =>
                        (job'[j].result = "True"
                           <=> /\ job'[j].engine_rc = "zero"
                               /\ job'[j].verified = "pass")]_vars

\* A call whose probe yielded None has made the directory, run the engine
\* and stands before verification.
C24_Witness ==
    \E j \in Jobs :
        /\ job[j].pc = "verify"
        /\ job[j].video_info = "None"
        /\ job[j].dir_made
        /\ "ffmpeg" \in job[j].spawned
        /\ job[j].engine_rc = "zero"

\* The ways validation ends a call.
InvalidInputs == {"input_missing", "input_not_file", "unsupported_container"}

\* C25: a call whose input is missing or no regular file, or whose
\* container token is neither mkv nor mp4, returns False having spawned
\* neither ffprobe nor ffmpeg and having made no output directory; with an
\* unsupported token no call gets past validation at all.
C25_FailFastValidation ==
    \A j \in Jobs :
        /\ job[j].ended \in InvalidInputs =>
               /\ job[j].pc = "returned"
               /\ job[j].result = "False"
               /\ job[j].spawned = {}
               /\ ~job[j].dir_made
               /\ job[j].engine_rc = "none"
               /\ job[j].verified = "none"
        /\ container \notin SupportedContainers =>
               /\ job[j].pc \in {"idle", "validate", "returned", "raised"}
               /\ job[j].result # "True"
               /\ job[j].spawned = {}
               /\ ~job[j].dir_made
        /\ job[j].pc \in (RunningPcs \ {"validate"}) =>
               job[j].ended = "none"

\* A call with an unsupported container token returned False with nothing
\* spawned.
C25_Witness ==
    \E j \in Jobs :
        /\ container \notin SupportedContainers
        /\ job[j].ended = "unsupported_container"
        /\ job[j].result = "False"
        /\ job[j].spawned = {}

\* The place of each position in the order of the steps of one call.
StepRank(pc) ==
    CASE pc = "idle" -> 0
      [] pc = "queued" -> 1
      [] pc = "validate" -> 2
      [] pc = "overwrite_check" -> 3
      [] pc = "probe" -> 4
      [] pc = "mkdir" -> 5
      [] pc = "engine" -> 6
      [] pc = "verify" -> 7
      [] OTHER -> 8

\* C26: inside one call the steps come in one order.  A call stands before
\* the engine only after validation and the overwrite check passed, ffprobe
\* was run and the output's parent directory was made; every step moves
\* the call forward and enters the checks, the probe, the directory step,
\* the engine and the verification only from the step just before, so the
\* engine runs at most once; the step that runs ffmpeg starts before the
\* engine with ffmpeg not yet run; verification happens only after exit
\* status 0.
C26_StepOrdering ==
    /\ [](\A j \in Jobs :
            /\ job[j].pc = "engine" =>
                   /\ job[j].ended = "none"
                   /\ container \in SupportedContainers
                   /\ job[j].out_file \in {"absent", "old"}
                   /\ job[j].out_file = "old" => overwrite
                   /\ "ffprobe" \in job[j].spawned
                   /\ job[j].video_info # "unset"
                   /\ job[j].dir_made
                   /\ "ffmpeg" \notin job[j].spawned
            /\ (job[j].pc = "verify" \/ job[j].verified # "none") =>
                   job[j].engine_rc = "zero"
            /\ job[j].engine_rc # "none" <=> "ffmpeg" \in job[j].spawned)
    /\ [][\A j \in Jobs :
            job'[j] # job[j] =>
                /\ StepRank(job'[j].pc) > StepRank(job[j].pc)
                /\ StepRank(job'[j].pc) \in 3..7 =>
                       StepRank(job'[j].pc) = StepRank(job[j].pc) + 1
                /\ (job'[j].spawned # job[j].spawned
                      /\ "ffmpeg" \in job'[j].spawned) =>
                       /\ job[j].pc = "engine"
                       /\ "ffmpeg" \notin job[j].spawned
                /\ job'[j].verified # job[j].verified =>
                       job[j].pc = "verify"]_vars

\* The engine exited 0 once, after the probe and the directory step, and
\* the output passed verification.
C26_Witness ==
    \E j \in Jobs :
        /\ job[j].pc = "returned"
        /\ job[j].spawned = {"ffprobe", "ffmpeg"}
        /\ job[j].dir_made
        /\ job[j].engine_rc = "zero"
        /\ job[j].verified = "pass"

\* The counts that the outcomes of the candidates' calls determine.
CountsOf(outcomes) ==
    [total |-> nfiles,
     successful |-> Cardinality({j \in Candidates : outcomes[j] = "True"}),
     failed |-> Cardinality({j \in Candidates : outcomes[j] # "True"})]

\* C28: the counts convert_directory returns are a function of the calls'
\* outcomes alone, so they are the same for every order of completion; and
\* while the completion loop runs, any finished call not yet consumed can
\* be consumed next, whatever its place in the submission order.
C28_OrderIndependentAggregation ==
    mode = "dir" =>
        /\ (mpc = "map_exit" /\ nfiles > 0) =>
               results = CountsOf([j \in Jobs |-> job[j].result])
        /\ mpc = "as_completed" =>
               \A j \in Candidates :
                   (Finished(j) /\ j \notin consumed) => ENABLED consume(j)

\* The second call submitted was consumed while the first was still
\* running.
C28_Witness ==
    /\ mode = "dir"
    /\ mpc = "as_completed"
    /\ consumed = {2}
    /\ Running(1)
    /\ results.successful + results.failed = 1

\* C29: the results dictionary is written only by convert_directory's own
\* thread.  A step of a call (a worker thread) leaves it as it is; it
\* changes only when it is created with both counts at zero and when one
\* completion is consumed; and every consumed completion adds exactly 1 to
\* exactly one of successful and failed, leaving total alone.
C29_AccumulatorWrittenByConsumerOnly ==
    [][/\ job' # job => results' = results
       /\ results' # results =>
              \/ /\ mpc = "convert_directory"
                 /\ results'.successful = 0
                 /\ results'.failed = 0
              \/ /\ mpc = "as_completed"
                 /\ consumed' # consumed
       /\ consumed' # consumed =>
              /\ \E j \in Candidates \ consumed : consumed' = consumed \cup {j}
              /\ completed' = completed + 1
              /\ results'.total = results.total
              /\ \/ /\ results'.successful = results.successful + 1
                    /\ results'.failed = results.failed
                 \/ /\ results'.successful = results.successful
                    /\ results'.failed = results.failed + 1]_vars

\* One completion has been consumed and counted while the other call is
\* still at work.
C29_Witness ==
    /\ mode = "dir"
    /\ mpc = "as_completed"
    /\ Cardinality(consumed) = 1
    /\ results.successful + results.failed = 1
    /\ \E j \in Candidates : Running(j) /\ job[j].pc = "engine"

\* C30 as stated: after each consumed completion, one that ended in a
\* caught fault included, one progress line has been logged, so there are
\* as many lines as completions; and in every line logged completed equals
\* successful plus failed.
C30_ProgressAfterEachCompletion ==
    mode = "dir" =>
        /\ progress.lines = completed
        /\ progress.lines > 0 =>
               progress.completed = progress.successful + progress.failed

----------------------------------------------------------------------------
(* Claims on the pool over time, under SchedSpec *)

\* The timed batch is over: every candidate's call is done.
TimedBatchDone == \A j \in 1..sched_files : sched_state[j] = "done"

\* C31: the calls of a batch run in parallel.  When every call takes one
\* interval, a batch of n candidates on a pool of w workers is over after
\* ceil(n / w) intervals (3 for 6 candidates on 2 workers, not 6); whenever
\* an interval passes, min(w, calls not yet done) calls were running; and
\* with at least 2 workers and 2 candidates two calls have run at once by
\* the end.
C31_JobsRunInParallel ==
    /\ [](TimedBatchDone =>
            /\ clock = (sched_files + sched_workers - 1) \div sched_workers
            /\ (sched_files = 6 /\ sched_workers = 2) => clock = 3
            /\ (sched_files >= 2 /\ sched_workers >= 2) =>
                   peak >= 2 /\ clock < sched_files)
    /\ [][clock' # clock =>
            LET not_done == Cardinality({j \in 1..sched_files :
                                            sched_state[j] # "done"})
            IN  NumTimedRunning
                  = IF sched_workers < not_done THEN sched_workers
                    ELSE not_done]_vars

\* Six candidates on two workers: two calls ran at once and the batch was
\* over after three intervals.
C31_Witness ==
    /\ sched_files = 6
    /\ sched_workers = 2
    /\ TimedBatchDone
    /\ peak = 2
    /\ clock = 3

----------------------------------------------------------------------------
(* Claims on the engine command, under CommandSpec *)

\* The overwrite directives in a command line, by position.
Directives(cmd) == {i \in 1..Len(cmd) : cmd[i] \in {"-y", "-n"}}

----------------------------------------------------------------------------
(* Claims on check_ffmpeg_availability, under ToolCheckSpec *)

\* C33: check_ffmpeg_availability answers (True, version) if and only if
\* both version checks exited with status 0, the version being the first
\* line ffmpeg printed; in every other case it answers (False, None); it
\* always ends with an answer, never an exception; and ffprobe is run only
\* after ffmpeg's check exited with status 0.
C33_ToolCheck ==
    /\ cpc = "done" =>
           /\ answer.available <=> (ffmpeg_run = "zero" /\ ffprobe_run = "zero")
           /\ answer.available => answer.version = version_line
           /\ ~answer.available => answer = Unavailable
    /\ cpc \in {"call", "ffprobe", "done"}
    /\ (\E i \in 1..Len(checks_run) : checks_run[i] = "ffprobe") =>
           /\ ffmpeg_run = "zero"
           /\ checks_run = <<"ffmpeg", "ffprobe">>

\* ffmpeg answered its version check and ffprobe timed out: (False, None).
C33_Witness ==
    /\ cpc = "done"
    /\ ffmpeg_run = "zero"
    /\ ffprobe_run = "timeout"
    /\ checks_run = <<"ffmpeg", "ffprobe">>
    /\ answer = Unavailable

----------------------------------------------------------------------------
(* Further claims on the statistics tracker, under Spec *)

\* C35 as stated: in every reachable state, calls in flight or not,
\* conversions_successful + conversions_failed is at most
\* conversions_attempted.
C35_FinishedAtMostStarted ==
    stats.conversions_successful + stats.conversions_failed
        <= stats.conversions_attempted

----------------------------------------------------------------------------
(* Claims on the output paths of a batch, under OutputsSpec and PathSpec *)

\* C36 as stated (under OutputsSpec): within one batch no two submitted
\* calls have the same output path, whatever the candidates, those that
\* differ only in their extension included.
C36_DistinctOutputPaths ==
    \A i, k \in 1..Len(batch_outputs) :
        i # k => batch_outputs[i] # batch_outputs[k]

\* C37 as stated (under PathSpec): no call is given an output path equal to
\* its own input path, for every allow-listed extension and every container
\* token, with or without a separate output directory.
C37_OutputIsNotInput ==
    (ppc = "derived" /\ caller = "convert_directory") =>
        output_file # video_file

----------------------------------------------------------------------------
(* Claims on the frame pipeline of dav2mp4.py *)

\* C38 as stated (under PipelineLiveSpec): for every number of frames and
\* every chunk_size from 1 on, the reader thread, the chunking loop and the
\* writer thread all finish and convert_dav_to_mp4 returns.
C38_PipelineTerminates ==
    <>(rpc = "done" /\ wpc = "done" /\ kpc = "returned_True")

\* The frames cap.read() has delivered so far, in read order.
ReadSoFar == [i \in 1..frames_read |-> i]

\* C40: at every state the frames handed to out.write are a prefix of the
\* frames read, each once and in read order, and when convert_dav_to_mp4
\* returns True the two sequences are equal.
C40_WrittenIsPrefixOfRead ==
    /\ Len(written) <= frames_read
    /\ written = SubSeq(ReadSoFar, 1, Len(written))
    /\ kpc = "returned_True" => written = ReadSoFar /\ frames_read = total_frames

\* A conversion of several full chunks has returned True with every frame
\* written.
C40_Witness ==
    /\ kpc = "returned_True"
    /\ chunk_size > 1
    /\ total_frames > chunk_size
    /\ written = [i \in 1..total_frames |-> i]

----------------------------------------------------------------------------
(* Claim on the worker count given on the command line *)

\* C39 as stated: the max_workers the BatchConverter hands to its
\* ThreadPoolExecutor is at least 1 for every integer given as --concurrent
\* and when none is given.
C39_PoolSizeAtLeastOne == constructed => pool_size >= 1

====
